---------------------------- MODULE Spec2Model ----------------------------
(***************************************************************************)
(* Model of the FDA drug label seeding pipeline (python-seeder):           *)
(*   DrugDatabaseSeeder  (src/python-seeder/src/seeder.py)                  *)
(*   DrugSeederOrchestrator.run  (src/python-seeder/src/main.py)            *)
(*                                                                         *)
(* Strings are sequences of one-character strings, so that len(), strip()  *)
(* and LOWER() are computed and not assumed.  Python's None is the value   *)
(* None below, which no string over Chars equals.                          *)
(*                                                                         *)
(* Storage is the PostgreSQL database behind one psycopg2 connection with  *)
(* autocommit off: drugs/labels are the committed tables, txDrugs/txLabels *)
(* are the tables as the connection's open transaction sees them.  A       *)
(* statement that fails on the server puts the transaction in the error    *)
(* state: every later statement of that transaction raises, and commit()   *)
(* then ends it without applying anything.  A statement that fails in the  *)
(* client before it is sent (a parameter psycopg2 cannot encode) raises    *)
(* and leaves the transaction as it was.                                   *)
(***************************************************************************)
EXTENDS Integers, Sequences, FiniteSets, TLC

(***************************************************************************)
(* Bounds of the model                                                     *)
(***************************************************************************)
\* longest batch the caller of seed_drugs_batch passes directly
MaxBatch == 3
\* number of direct seed_drugs_batch calls on one loader
MaxCalls == 2
\* records passed to the loader in all direct calls together
MaxRecords == 3

(***************************************************************************)
(* Strings                                                                 *)
(***************************************************************************)
None == <<"None">>

\* Python truthiness of an Optional[str]
Truthy(s) == s # None /\ s # <<>>

\* a character that \s and str.strip() take for whitespace
IsSpace(c) == c \in {" ", "\t", "\n"}

\* str.lstrip(): without the whitespace at the start
lstrip(s) ==
    LET leading == {i \in 1..Len(s) : \A j \in 1..i : IsSpace(s[j])}
    IN  SubSeq(s, Cardinality(leading) + 1, Len(s))

\* str.rstrip(): without the whitespace at the end
rstrip(s) ==
    LET trailing == {i \in 1..Len(s) : \A j \in i..Len(s) : IsSpace(s[j])}
    IN  SubSeq(s, 1, Len(s) - Cardinality(trailing))

\* str.strip()
strip(s) == rstrip(lstrip(s))

UpperLetters ==
    <<"A", "B", "C", "D", "E", "F", "G", "H", "I", "J", "K", "L", "M",
      "N", "O", "P", "Q", "R", "S", "T", "U", "V", "W", "X", "Y", "Z">>

LowerLetters ==
    <<"a", "b", "c", "d", "e", "f", "g", "h", "i", "j", "k", "l", "m",
      "n", "o", "p", "q", "r", "s", "t", "u", "v", "w", "x", "y", "z">>

LowerChar(c) ==
    IF \E k \in DOMAIN UpperLetters : UpperLetters[k] = c
    THEN LowerLetters[CHOOSE k \in DOMAIN UpperLetters : UpperLetters[k] = c]
    ELSE c

UpperChar(c) ==
    IF \E k \in DOMAIN LowerLetters : LowerLetters[k] = c
    THEN UpperLetters[CHOOSE k \in DOMAIN LowerLetters : LowerLetters[k] = c]
    ELSE c

\* SQL LOWER()
LOWER(s) == [i \in DOMAIN s |-> LowerChar(s[i])]

\* str.lower(), str.upper()
lower(s) == [i \in DOMAIN s |-> LowerChar(s[i])]
upper(s) == [i \in DOMAIN s |-> UpperChar(s[i])]

\* "needle in haystack"
Contains(haystack, needle) ==
    \E i \in 0..(Len(haystack) - Len(needle)) :
        \A k \in 1..Len(needle) : haystack[i + k] = needle[k]

\* str.split(sep) for a separator of one character
RECURSIVE split(_, _)
split(s, sep) ==
    IF \A i \in DOMAIN s : s[i] # sep THEN <<s>>
    ELSE LET at == CHOOSE i \in DOMAIN s : s[i] = sep /\ \A j \in 1..(i - 1) : s[j] # sep
         IN  <<SubSeq(s, 1, at - 1)>> \o split(SubSeq(s, at + 1, Len(s)), sep)

\* ' '.join(lines)
RECURSIVE join(_)
join(lines) ==
    IF lines = <<>> THEN <<>>
    ELSE IF Len(lines) = 1 THEN lines[1]
    ELSE lines[1] \o <<" ">> \o join(Tail(lines))

IsDigit(c) == c \in {"0", "1", "2", "3", "4", "5", "6", "7", "8", "9"}

\* str(uuid.uuid4()): the n-th identifier generated; it differs from every
\* identifier generated before and from every set id of the input
uuid4(n) == <<"uuid4", ToString(n)>>


(***************************************************************************)
(* Records handed to the loader (transformer.py, DrugRecord): the fields   *)
(* the loader's validation and matching read, and one label narrative.     *)
(***************************************************************************)
DrugRecord(name, manufacturer, set_id, indications) ==
    [name |-> name, manufacturer |-> manufacturer,
     set_id |-> set_id, indications |-> indications]

RecA     == DrugRecord(<<"a">>, <<"m">>, <<"s">>, <<"i">>)
\* RecA's identity in another letter case, without set id
RecA2    == DrugRecord(<<"A">>, <<"M">>, None, <<"j">>)
\* another drug carrying RecA's set id
RecB     == DrugRecord(<<"b">>, <<"m">>, <<"s">>, <<"i">>)
\* whitespace-only name: fails the loader's validation
RecBlank == DrugRecord(<<" ">>, <<"m">>, None, <<"i">>)

Records == {RecA, RecA2, RecB, RecBlank}

RECURSIVE SeqsUpTo(_, _)
SeqsUpTo(S, n) ==
    IF n = 0 THEN {<<>>}
    ELSE LET shorter == SeqsUpTo(S, n - 1)
         IN  shorter \cup {Append(q, e) : q \in {t \in shorter : Len(t) = n - 1}, e \in S}

\* what may go wrong with the statements of one record: nothing; a statement
\* rejected by the server; a statement that raises in the client before the
\* drug row is written; one that raises in the client after the drug row is
\* written and before the label row is
Faults == {"none", "server", "client_find", "client_label"}

VARIABLES
    \* DrugDatabaseSeeder
    connection,          \* "none" | "open" | "closed"
    stats,               \* self.stats
    \* the database
    drugs, labels,       \* committed rows
    txDrugs, txLabels,   \* rows as the connection's transaction sees them
    txStatus,            \* "idle" | "intrans" | "inerror"
    \* the running seed_drugs_batch call
    lpc,                 \* "idle" | "loop" | "returned"
    drug_records,        \* the batch argument
    idx,                 \* position of the for loop
    successful_records,
    ret,                 \* the value returned
    \* history of the call, kept for the properties
    dbBefore,            \* committed rows when the call began
    statsBefore,         \* self.stats when the call began
    outcome,             \* per record: "inserted" | "updated" | "skipped" | "raised"
    injected,            \* per record: the fault met
    txEnd,               \* how the call ended its transaction: "none" | "commit" | "rollback"
    commitRaised,        \* commit() raised in this call
    calls,               \* seed_drugs_batch calls made
    given,               \* records passed in direct calls
    prev                 \* summary of the call before this one

loaderVars == <<connection, stats, drugs, labels, txDrugs, txLabels, txStatus,
                lpc, drug_records, idx, successful_records, ret,
                dbBefore, statsBefore, outcome, injected, txEnd, commitRaised,
                calls, given, prev>>

ZeroStats == [processed |-> 0, inserted |-> 0, updated |-> 0, skipped |-> 0, errors |-> 0]

Bump(st, key) == [st EXCEPT ![key] = @ + 1]

(***************************************************************************)
(* DrugDatabaseSeeder._validate_record                                     *)
(***************************************************************************)
MaxFieldLen == 255

_validate_record(record) ==
    LET validation_errors ==
               (IF ~Truthy(record.name) \/ Len(strip(record.name)) = 0
                THEN {"Drug name is empty"} ELSE {})
          \cup (IF ~Truthy(record.manufacturer) \/ Len(strip(record.manufacturer)) = 0
                THEN {"Manufacturer is empty"} ELSE {})
          \cup (IF ~Truthy(record.indications) \/ Len(strip(record.indications)) = 0
                THEN {"Indications is empty"} ELSE {})
          \cup (IF Len(record.name) > MaxFieldLen
                THEN {"Drug name too long"} ELSE {})
          \cup (IF Len(record.manufacturer) > MaxFieldLen
                THEN {"Manufacturer name too long"} ELSE {})
    IN  validation_errors = {}

(***************************************************************************)
(* DrugDatabaseSeeder._find_existing_drug: the ids the two SELECT ...      *)
(* LIMIT 1 may return ({} when the result is None).  The first lookup      *)
(* compares the label row's own id with the record's set id.               *)
(***************************************************************************)
BySetId(dr, lb, record) ==
    {d.id : d \in {e \in dr : \E l \in lb : e.id = l.drug_id /\ l.id = record.set_id}}

\* a name lookup that compares the stored values as they are
ByExactNameAndManufacturer(dr, record) ==
    {d.id : d \in {e \in dr : /\ e.drug_name = record.name
                              /\ e.manufacturer = record.manufacturer}}

ByNameAndManufacturer(dr, record) ==
    {d.id : d \in {e \in dr : /\ LOWER(e.drug_name) = LOWER(record.name)
                              /\ LOWER(e.manufacturer) = LOWER(record.manufacturer)}}

\* a lookup that does not fall through to the name when the record has a set id
FindBySetIdOrElseByName(dr, lb, record) ==
    IF Truthy(record.set_id)
    THEN BySetId(dr, lb, record)
    ELSE ByNameAndManufacturer(dr, record)

_find_existing_drug(dr, lb, record) ==
    IF Truthy(record.set_id) /\ BySetId(dr, lb, record) # {}
    THEN BySetId(dr, lb, record)
    ELSE ByNameAndManufacturer(dr, record)

(***************************************************************************)
(* The writes                                                              *)
(***************************************************************************)
UsedIds(dr, lb) == {d.id : d \in dr} \cup {l.id : l \in lb}

\* a uuid4 not in use
FreshId(used) ==
    uuid4(CHOOSE n \in 1..(Cardinality(used) + 1) :
            /\ uuid4(n) \notin used
            /\ \A m \in 1..(n - 1) : uuid4(m) \in used)

\* datetime.now(timezone.utc), read on a clock that ticks once for every
\* seed_drugs_batch call
now == calls

_insert_drug(dr, drug_id, record) ==
    dr \cup {[id |-> drug_id, drug_name |-> record.name,
              manufacturer |-> record.manufacturer, set_id |-> record.set_id,
              created_at |-> now, updated_at |-> now]}

_insert_drug_label(lb, label_id, drug_id, record) ==
    lb \cup {[id |-> label_id, drug_id |-> drug_id,
              labeler_name |-> record.manufacturer,
              indications |-> record.indications]}

\* an update that keeps the stored value where the record has none
UpdateDrugRowMerging(dr, drug_id, record) ==
    {IF d.id = drug_id
     THEN [d EXCEPT !.drug_name = record.name,
                    !.manufacturer = record.manufacturer,
                    !.set_id = IF record.set_id = None THEN @ ELSE record.set_id,
                    !.updated_at = now]
     ELSE d : d \in dr}

\* _update_drug, first statement: UPDATE drugs SET ... WHERE id = drug_id
UpdateDrugRow(dr, drug_id, record) ==
    {IF d.id = drug_id
     THEN [d EXCEPT !.drug_name = record.name,
                    !.manufacturer = record.manufacturer,
                    !.set_id = record.set_id,
                    !.updated_at = now]
     ELSE d : d \in dr}

\* _update_drug, the label: UPDATE drug_labels ... WHERE drug_id = drug_id when
\* the SELECT finds a label of the drug, _insert_drug_label otherwise
UpdateOrInsertLabel(lb, fresh, drug_id, record) ==
    IF \E l \in lb : l.drug_id = drug_id
    THEN {IF l.drug_id = drug_id
          THEN [l EXCEPT !.labeler_name = record.manufacturer,
                         !.indications = record.indications]
          ELSE l : l \in lb}
    ELSE _insert_drug_label(lb, fresh, drug_id, record)

(***************************************************************************)
(* DrugDatabaseSeeder.seed_drugs_batch                                     *)
(***************************************************************************)
NoCall == [batch |-> <<>>, nDrugs |-> 0, nLabels |-> 0, clean |-> FALSE]

\* the call that has just returned, as the next call remembers it
CallSummary ==
    [batch   |-> drug_records,
     nDrugs  |-> Cardinality(drugs),
     nLabels |-> Cardinality(labels),
     clean   |-> /\ lpc = "returned"
                 /\ ret = TRUE
                 /\ \A i \in DOMAIN outcome : outcome[i] # "raised"]

\* entry of seed_drugs_batch(records): the empty batch returns True at once
EnterSeed(records) ==
    /\ connection = "open"
    /\ prev' = IF lpc = "returned" THEN CallSummary ELSE NoCall
    /\ drug_records' = records
    /\ idx' = 1
    /\ successful_records' = 0
    /\ outcome' = <<>>
    /\ injected' = <<>>
    /\ dbBefore' = <<drugs, labels>>
    /\ statsBefore' = stats
    /\ txEnd' = "none"
    /\ commitRaised' = FALSE
    /\ IF records = <<>>
       THEN lpc' = "returned" /\ ret' = TRUE
       ELSE lpc' = "loop" /\ ret' = "pending"
    /\ UNCHANGED <<connection, stats, drugs, labels, txDrugs, txLabels, txStatus>>

\* the record raised: _process_single_drug counts it and re-raises, the loop
\* of seed_drugs_batch counts it again and goes on
Raised(fault, dr, lb, status) ==
    /\ stats' = Bump(Bump(stats, "errors"), "errors")
    /\ UNCHANGED successful_records
    /\ outcome' = Append(outcome, "raised")
    /\ injected' = Append(injected, fault)
    /\ txStatus' = status
    /\ txDrugs' = IF status = "inerror" THEN drugs ELSE dr
    /\ txLabels' = IF status = "inerror" THEN labels ELSE lb

\* the record went through: the loop counts it as successful and processed
Succeeded(counter, dr, lb) ==
    /\ stats' = Bump(Bump(stats, counter), "processed")
    /\ successful_records' = successful_records + 1
    /\ outcome' = Append(outcome, counter)
    /\ injected' = Append(injected, "none")
    /\ txStatus' = IF counter = "skipped" THEN txStatus ELSE "intrans"
    /\ txDrugs' = dr
    /\ txLabels' = lb

\* status of the transaction after a statement raised
AfterFault(fault) == IF fault = "server" THEN "inerror" ELSE "intrans"

\* one iteration of the for loop: _process_single_drug(cursor, record)
ProcessRecord(fault) ==
    /\ lpc = "loop"
    /\ idx <= Len(drug_records)
    /\ idx' = idx + 1
    /\ LET record   == drug_records[idx]
           found    == _find_existing_drug(txDrugs, txLabels, record)
           drug_id  == FreshId(UsedIds(txDrugs, txLabels))
           label_id == FreshId(UsedIds(txDrugs, txLabels) \cup {drug_id})
       IN  IF ~_validate_record(record)
           THEN /\ fault = "none"
                /\ Succeeded("skipped", txDrugs, txLabels)
           ELSE IF txStatus = "inerror"
           THEN \* the first SELECT raises: the transaction is aborted
                /\ fault = "none"
                /\ Raised("none", txDrugs, txLabels, "inerror")
           ELSE IF fault \in {"server", "client_find"}
           THEN Raised(fault, txDrugs, txLabels, AfterFault(fault))
           ELSE IF found # {}
           THEN \E existing_drug_id \in found :
                  IF fault = "client_label"
                  THEN Raised(fault, UpdateDrugRow(txDrugs, existing_drug_id, record),
                              txLabels, AfterFault(fault))
                  ELSE Succeeded("updated",
                                 UpdateDrugRow(txDrugs, existing_drug_id, record),
                                 UpdateOrInsertLabel(txLabels, drug_id,
                                                     existing_drug_id, record))
           ELSE IF fault = "client_label"
                THEN Raised(fault, _insert_drug(txDrugs, drug_id, record),
                            txLabels, AfterFault(fault))
                ELSE Succeeded("inserted",
                               _insert_drug(txDrugs, drug_id, record),
                               _insert_drug_label(txLabels, label_id, drug_id, record))
    /\ UNCHANGED <<connection, drugs, labels, lpc, drug_records, ret,
                   dbBefore, statsBefore, txEnd, commitRaised, calls, given, prev>>

\* a loader that commits whatever the loop counted
ShouldCommitAlways(n) == n >= 0

\* "if successful_records > 0"
ShouldCommit(n) == n > 0

\* connection.commit(): an aborted transaction is ended without effect
Committed(status, committed, seen) == IF status = "inerror" THEN committed ELSE seen

\* an end of the loop that returns False without rolling back when no record
\* succeeded
FinishBatchWithoutRollback(commit_ok) ==
    /\ lpc = "loop"
    /\ idx > Len(drug_records)
    /\ lpc' = "returned"
    /\ IF ShouldCommit(successful_records) /\ commit_ok
       THEN /\ drugs' = Committed(txStatus, drugs, txDrugs)
            /\ labels' = Committed(txStatus, labels, txLabels)
            /\ txEnd' = "commit"
            /\ ret' = TRUE
            /\ txStatus' = "idle"
            /\ txDrugs' = drugs'
            /\ txLabels' = labels'
            /\ UNCHANGED commitRaised
       ELSE /\ ShouldCommit(successful_records) \/ commit_ok
            /\ UNCHANGED <<drugs, labels>>
            /\ ret' = FALSE
            /\ commitRaised' = ShouldCommit(successful_records)
            /\ IF ShouldCommit(successful_records)
               THEN /\ txEnd' = "rollback"
                    /\ txStatus' = "idle"
                    /\ txDrugs' = drugs
                    /\ txLabels' = labels
               ELSE UNCHANGED <<txEnd, txStatus, txDrugs, txLabels>>
    /\ UNCHANGED <<connection, stats, drug_records, idx, successful_records,
                   dbBefore, statsBefore, outcome, injected, calls, given, prev>>

\* the end of the loop: commit and return True, or roll back and return False;
\* a commit that raises is caught by the outer handler, which rolls back
FinishBatch(commit_ok) ==
    /\ lpc = "loop"
    /\ idx > Len(drug_records)
    /\ lpc' = "returned"
    /\ txStatus' = "idle"
    /\ IF ShouldCommit(successful_records) /\ commit_ok
       THEN /\ drugs' = Committed(txStatus, drugs, txDrugs)
            /\ labels' = Committed(txStatus, labels, txLabels)
            /\ txEnd' = "commit"
            /\ ret' = TRUE
            /\ UNCHANGED commitRaised
       ELSE /\ ShouldCommit(successful_records) \/ commit_ok
            /\ UNCHANGED <<drugs, labels>>
            /\ txEnd' = "rollback"
            /\ ret' = FALSE
            /\ commitRaised' = ShouldCommit(successful_records)
    /\ txDrugs' = drugs'
    /\ txLabels' = labels'
    /\ UNCHANGED <<connection, stats, drug_records, idx, successful_records,
                   dbBefore, statsBefore, outcome, injected, calls, given, prev>>

(***************************************************************************)
(* Source documents and DrugDataTransformer.transform (transformer.py).    *)
(* A document is a mapping from keys to strings, its label a mapping too.  *)
(***************************************************************************)
\* dict.get(key): None when the key is absent
Get(mapping, key) == IF key \in DOMAIN mapping THEN mapping[key] ELSE None

EmptyDict == [key \in {} |-> None]

\* re.sub(r'\s+', ' ', text) on the characters lo..hi of s: a character that
\* is not whitespace stays, the first of a run of whitespace becomes ' ',
\* the others go
RECURSIVE CollapseRange(_, _, _)
CollapseRange(s, lo, hi) ==
    IF lo > hi THEN <<>>
    ELSE IF lo = hi
         THEN IF ~IsSpace(s[lo]) THEN <<s[lo]>>
              ELSE IF lo = 1 \/ ~IsSpace(s[lo - 1]) THEN <<" ">>
              ELSE <<>>
    ELSE LET mid == (lo + hi) \div 2
         IN  CollapseRange(s, lo, mid) \o CollapseRange(s, mid + 1, hi)

\* re.sub(r'\s+', ' ', text)
CollapseSpaces(s) == CollapseRange(s, 1, Len(s))

\* a cleaning that collapses whitespace and does not strip the result
CleanTextUnstripped(text) ==
    IF ~Truthy(text) THEN None ELSE CollapseSpaces(text)

\* _clean_text(text): None for a value that is empty after cleaning
_clean_text(text) ==
    IF ~Truthy(text) THEN None
    ELSE LET cleaned == strip(CollapseSpaces(text))
         IN  IF cleaned # <<>> THEN cleaned ELSE None

\* the character at i is inside a tag: a "<" before it is not yet closed
InTag(s, i) ==
    \E j \in 1..(i - 1) : s[j] = "<" /\ \A k \in (j + 1)..(i - 1) : s[k] # ">"

\* the text outside the tags among the characters lo..hi of s
RECURSIVE TextRange(_, _, _)
TextRange(s, lo, hi) ==
    IF lo > hi THEN <<>>
    ELSE IF lo = hi
         THEN IF s[lo] = "<" \/ InTag(s, lo) THEN <<>> ELSE <<s[lo]>>
    ELSE LET mid == (lo + hi) \div 2
         IN  TextRange(s, lo, mid) \o TextRange(s, mid + 1, hi)

\* BeautifulSoup(html_content, "lxml").get_text(): the text outside the tags
\* (documents without script and style elements and without entities)
get_text(s) == TextRange(s, 1, Len(s))

_clean_html_content(html_content) ==
    IF ~Truthy(html_content) THEN None
    ELSE LET text == strip(CollapseSpaces(get_text(html_content)))
         IN  IF text # <<>> THEN text ELSE None

\* the first element of a sequence of candidates that is not None
RECURSIVE FirstFound(_)
FirstFound(candidates) ==
    IF candidates = <<>> THEN None
    ELSE IF Head(candidates) # None THEN Head(candidates)
    ELSE FirstFound(Tail(candidates))

LabelOf(raw_drug_data) ==
    IF "label" \in DOMAIN raw_drug_data THEN raw_drug_data["label"] ELSE EmptyDict

\* a chain that tries brandName before productName
SafeExtractDrugNameBrandFirst(raw_drug_data) ==
    FirstFound(<<_clean_text(Get(raw_drug_data, "drugName")),
                 _clean_text(Get(raw_drug_data, "name")),
                 _clean_text(Get(raw_drug_data, "brandName")),
                 _clean_text(Get(raw_drug_data, "productName")),
                 _clean_text(Get(LabelOf(raw_drug_data), "title"))>>)

\* the name that _safe_extract_drug_name returns
_safe_extract_drug_name(raw_drug_data) ==
    FirstFound(<<_clean_text(Get(raw_drug_data, "drugName")),
                 _clean_text(Get(raw_drug_data, "name")),
                 _clean_text(Get(raw_drug_data, "productName")),
                 _clean_text(Get(raw_drug_data, "brandName")),
                 _clean_text(Get(LabelOf(raw_drug_data), "title"))>>)

DefaultManufacturer ==
    <<"U","n","k","n","o","w","n"," ","M","a","n","u","f","a","c","t","u","r","e","r">>

DefaultIndications == <<"N","o","t"," ","a","v","a","i","l","a","b","l","e">>

_safe_extract_manufacturer(raw_drug_data) ==
    LET found == FirstFound(<<_clean_text(Get(raw_drug_data, "labeler")),
                              _clean_text(Get(raw_drug_data, "manufacturer")),
                              _clean_text(Get(raw_drug_data, "company")),
                              _clean_text(Get(raw_drug_data, "sponsor")),
                              _clean_text(Get(LabelOf(raw_drug_data), "labelerName"))>>)
    IN  IF found # None THEN found ELSE DefaultManufacturer

_safe_extract_indications(label) ==
    LET found == FirstFound(<<_clean_html_content(Get(label, "indicationsAndUsage")),
                              _clean_html_content(Get(label, "indications")),
                              _clean_html_content(Get(label, "usage")),
                              _clean_html_content(Get(label, "indication"))>>)
    IN  IF found # None THEN found ELSE DefaultIndications

(***************************************************************************)
(* Values that are not mappings, and the defaults of dict.get              *)
(***************************************************************************)
\* a value that is not a dict (None, a str, a list), kept as its type name
\* under a key that no document uses
NotADict(type_name) == [__class__ |-> type_name]

\* isinstance(value, dict)
isinstance_dict(value) == "__class__" \notin DOMAIN value

\* "if not label" for a label that is a dict, None or a non-empty str
LabelTruthy(label) ==
    IF isinstance_dict(label) THEN DOMAIN label # {} ELSE label["__class__"] # "NoneType"

\* dict.get(key, default): a key that is present with the value None gives None
GetOr(mapping, key, default) == IF key \in DOMAIN mapping THEN mapping[key] ELSE default

(***************************************************************************)
(* Regular expressions of the transformer, matched as re matches them:     *)
(* each operator gives the position after the match that starts at i, or 0 *)
(* when there is no match at i.  The letter "mu" stands for the Greek one. *)
(***************************************************************************)
\* \d* at i
RECURSIVE DigitsEnd(_, _)
DigitsEnd(s, i) == IF i <= Len(s) /\ IsDigit(s[i]) THEN DigitsEnd(s, i + 1) ELSE i

\* \s* at i
RECURSIVE SpacesEnd(_, _)
SpacesEnd(s, i) == IF i <= Len(s) /\ IsSpace(s[i]) THEN SpacesEnd(s, i + 1) ELSE i

\* \d+(?:\.\d+)? at i
NumberEnd(s, i) ==
    LET e == DigitsEnd(s, i)
    IN  IF e = i THEN 0
        ELSE IF e <= Len(s) /\ s[e] = "." /\ DigitsEnd(s, e + 1) > e + 1
             THEN DigitsEnd(s, e + 1)
             ELSE e

\* a literal at i under re.IGNORECASE
WordAt(s, i, word) ==
    /\ i + Len(word) - 1 <= Len(s)
    /\ \A k \in 1..Len(word) : LowerChar(s[i + k - 1]) = LowerChar(word[k])

\* (?:a|b|...) at i: the first alternative that matches
RECURSIVE AltEnd(_, _, _)
AltEnd(s, i, alternatives) ==
    IF alternatives = <<>> THEN 0
    ELSE IF WordAt(s, i, Head(alternatives)) THEN i + Len(Head(alternatives))
    ELSE AltEnd(s, i, Tail(alternatives))

\* mg|g|mcg|mu g|units?|iu|%
StrengthUnits ==
    <<<<"m", "g">>, <<"g">>, <<"m", "c", "g">>, <<"mu", "g">>, <<"u", "n", "i", "t", "s">>, <<"u", "n", "i", "t">>, <<"i", "u">>, <<"%">>>>

\* mg|g|mcg|mu g|units?|iu
StrengthUnitsPer ==
    <<<<"m", "g">>, <<"g">>, <<"m", "c", "g">>, <<"mu", "g">>, <<"u", "n", "i", "t", "s">>, <<"u", "n", "i", "t">>, <<"i", "u">>>>

\* mg|g|mcg|mu g|mL|tablet|capsule
DenominatorUnits ==
    <<<<"m", "g">>, <<"g">>, <<"m", "c", "g">>, <<"mu", "g">>, <<"m", "L">>, <<"t", "a", "b", "l", "e", "t">>, <<"c", "a", "p", "s", "u", "l", "e">>>>

\* mL|tablet|capsule
PerUnits == <<<<"m", "L">>, <<"t", "a", "b", "l", "e", "t">>, <<"c", "a", "p", "s", "u", "l", "e">>>>

\* (?:/\s*\d+(?:\.\d+)?\s*(?:mg|g|mcg|mu g|mL|tablet|capsule)) at i
DenominatorEnd(s, i) ==
    IF i <= Len(s) /\ s[i] = "/"
    THEN LET n == NumberEnd(s, SpacesEnd(s, i + 1))
         IN  IF n = 0 THEN 0 ELSE AltEnd(s, SpacesEnd(s, n), DenominatorUnits)
    ELSE 0

\* the first strength pattern: number, unit, \s*, and the denominator if one
\* matches
StrengthPattern1(s, i) ==
    LET n == NumberEnd(s, i)
        u == IF n = 0 THEN 0 ELSE AltEnd(s, SpacesEnd(s, n), StrengthUnits)
        a == IF u = 0 THEN 0 ELSE SpacesEnd(s, u)
        d == IF a = 0 THEN 0 ELSE DenominatorEnd(s, a)
    IN  IF d # 0 THEN d ELSE a

\* the second strength pattern: number, unit, "per", number, unit
StrengthPattern2(s, i) ==
    LET n == NumberEnd(s, i)
        u == IF n = 0 THEN 0 ELSE AltEnd(s, SpacesEnd(s, n), StrengthUnitsPer)
        p == IF u = 0 THEN 0 ELSE AltEnd(s, SpacesEnd(s, u), <<<<"p", "e", "r">>>>)
        m == IF p = 0 THEN 0 ELSE NumberEnd(s, SpacesEnd(s, p))
    IN  IF m = 0 THEN 0 ELSE AltEnd(s, SpacesEnd(s, m), PerUnits)

\* the third strength pattern: number, %
StrengthPattern3(s, i) ==
    LET n == NumberEnd(s, i)
    IN  IF n = 0 THEN 0 ELSE AltEnd(s, SpacesEnd(s, n), <<<<"%">>>>)

\* re.findall(pattern, text)[0]: the leftmost match, None when there is none
FirstMatch(s, PatternEnd(_, _)) ==
    IF \A i \in 1..Len(s) : PatternEnd(s, i) = 0 THEN None
    ELSE LET at == CHOOSE i \in 1..Len(s) :
                       /\ PatternEnd(s, i) # 0
                       /\ \A j \in 1..(i - 1) : PatternEnd(s, j) = 0
         IN  SubSeq(s, at, PatternEnd(s, at) - 1)

_parse_strength_from_text(text) ==
    IF ~Truthy(text) THEN None
    ELSE FirstFound(<<FirstMatch(text, StrengthPattern1),
                      FirstMatch(text, StrengthPattern2),
                      FirstMatch(text, StrengthPattern3)>>)

\* \d{lo,hi} at i, followed by the character next
DigitsThen(s, i, lo, hi, next) ==
    LET e == DigitsEnd(s, i)
    IN  IF e - i >= lo /\ e - i <= hi /\ e <= Len(s) /\ s[e] = next THEN e + 1 ELSE 0

\* NDC\s*:?\s*(\d{4,5}-\d{3,4}-\d{2}) at i: <<start, end>> of the group
NdcGroup(s, i) ==
    IF ~WordAt(s, i, <<"N", "D", "C">>) THEN <<0, 0>>
    ELSE LET a == SpacesEnd(s, i + 3)
             b == IF a <= Len(s) /\ s[a] = ":" THEN a + 1 ELSE a
             c == SpacesEnd(s, b)
             x == DigitsThen(s, c, 4, 5, "-")
             y == IF x = 0 THEN 0 ELSE DigitsThen(s, x, 3, 4, "-")
         IN  IF y # 0 /\ DigitsEnd(s, y) >= y + 2 THEN <<c, y + 2>> ELSE <<0, 0>>

(***************************************************************************)
(* The extractors of DrugDataTransformer                                   *)
(***************************************************************************)
\* "value or ''"
OrEmpty(value) == IF Truthy(value) THEN value ELSE <<>>

\* "self._clean_html_content(field_value) or field_value"
CleanOrRaw(field_value) ==
    IF Truthy(_clean_html_content(field_value))
    THEN _clean_html_content(field_value)
    ELSE field_value

\* str.rstrip(chars) for one character
rstrip_char(s, c) ==
    LET trailing == {i \in 1..Len(s) : \A j \in i..Len(s) : s[j] = c}
    IN  SubSeq(s, 1, Len(s) - Cardinality(trailing))

\* str.title() of a word in lower case
title_case(word) == <<UpperChar(Head(word))>> \o Tail(word)

_extract_generic_name(label) ==
    IF Truthy(Get(label, "genericName")) THEN _clean_text(Get(label, "genericName"))
    ELSE LET title == GetOr(label, "title", <<>>)
             parts == split(title, "(")
         IN  IF Contains(lower(title), <<"g", "e", "n", "e", "r", "i", "c">>) /\ Len(parts) > 1
             THEN _clean_text(rstrip_char(parts[2], ")"))
             ELSE None

_extract_brand_name(drug_name, label) ==
    LET title == GetOr(label, "title", <<>>)
    IN  IF Truthy(title) /\ upper(title) # upper(drug_name)
        THEN _clean_text(title)
        ELSE _clean_text(drug_name)

common_forms ==
    <<<<"t", "a", "b", "l", "e", "t">>, <<"c", "a", "p", "s", "u", "l", "e">>,
      <<"i", "n", "j", "e", "c", "t", "i", "o", "n">>, <<"s", "o", "l", "u", "t", "i", "o", "n">>,
      <<"s", "u", "s", "p", "e", "n", "s", "i", "o", "n">>, <<"c", "r", "e", "a", "m">>,
      <<"o", "i", "n", "t", "m", "e", "n", "t">>, <<"g", "e", "l">>,
      <<"p", "a", "t", "c", "h">>, <<"s", "p", "r", "a", "y">>,
      <<"i", "n", "h", "a", "l", "e", "r">>, <<"s", "y", "r", "u", "p">>,
      <<"p", "o", "w", "d", "e", "r">>, <<"g", "r", "a", "n", "u", "l", "e", "s">>,
      <<"s", "u", "p", "p", "o", "s", "i", "t", "o", "r", "y">>, <<"d", "r", "o", "p", "s">>,
      <<"l", "o", "t", "i", "o", "n">>, <<"f", "o", "a", "m">>,
      <<"f", "i", "l", "m">>, <<"s", "t", "r", "i", "p">>,
      <<"p", "e", "l", "l", "e", "t">>>>

DefaultDosageForm == <<"U", "n", "k", "n", "o", "w", "n">>
DefaultStrength   == <<"N", "o", "t", " ", "s", "p", "e", "c", "i", "f", "i", "e", "d">>
DefaultRoute      == <<"U", "n", "k", "n", "o", "w", "n">>

\* the first element of a sequence of keywords that the text contains
RECURSIVE FirstKeyword(_, _)
FirstKeyword(text, keywords) ==
    IF keywords = <<>> THEN None
    ELSE IF Contains(text, Head(keywords)) THEN Head(keywords)
    ELSE FirstKeyword(text, Tail(keywords))

\* the dosage form read from one of the alternative fields
FormOfField(label, field) ==
    LET field_value == GetOr(label, field, <<>>)
        found == IF Truthy(field_value)
                 THEN FirstKeyword(lower(CleanOrRaw(field_value)),
                                   <<<<"i", "n", "j", "e", "c", "t", "i", "o", "n">>, <<"t", "a", "b", "l", "e", "t">>, <<"c", "a", "p", "s", "u", "l", "e">>>>)
                 ELSE None
    IN  IF found = None THEN None ELSE title_case(found)

\* the dosage form the label gives, None when the default is used
DosageFormFound(label) ==
    LET forms_section == GetOr(label, "dosageFormsAndStrengths", <<>>)
        form == IF Truthy(forms_section)
                THEN FirstKeyword(lower(OrEmpty(_clean_html_content(forms_section))),
                                  common_forms)
                ELSE None
    IN  IF form # None THEN title_case(form)
        ELSE FirstFound(<<FormOfField(label, "dosageForm"),
                          FormOfField(label, "formulation"),
                          FormOfField(label, "productType")>>)

_extract_dosage_form(label) ==
    IF DosageFormFound(label) # None THEN DosageFormFound(label) ELSE DefaultDosageForm

\* the strength parsed from the primary section, None when there is none
StrengthPrimary(label) ==
    LET forms_section == GetOr(label, "dosageFormsAndStrengths", <<>>)
    IN  IF Truthy(forms_section)
        THEN LET strength == _parse_strength_from_text(
                                 OrEmpty(_clean_html_content(forms_section)))
             IN  IF Truthy(strength) THEN strength ELSE None
        ELSE None

StrengthOfField(label, field) ==
    LET field_value == GetOr(label, field, <<>>)
    IN  IF Truthy(field_value)
        THEN LET strength == _parse_strength_from_text(CleanOrRaw(field_value))
             IN  IF Truthy(strength) THEN strength ELSE None
        ELSE None

StrengthAlternative(label) ==
    FirstFound(<<StrengthOfField(label, "strength"),
                 StrengthOfField(label, "activeIngredient"),
                 StrengthOfField(label, "concentration")>>)

_extract_strength(label) ==
    IF StrengthPrimary(label) # None THEN StrengthPrimary(label)
    ELSE IF StrengthAlternative(label) # None THEN StrengthAlternative(label)
    ELSE DefaultStrength

routes ==
    <<<<<<"s", "u", "b", "c", "u", "t", "a", "n", "e", "o", "u", "s">>, <<"S", "u", "b", "c", "u", "t", "a", "n", "e", "o", "u", "s">>>>,
      <<<<"i", "n", "t", "r", "a", "v", "e", "n", "o", "u", "s">>, <<"I", "n", "t", "r", "a", "v", "e", "n", "o", "u", "s">>>>,
      <<<<"i", "n", "t", "r", "a", "m", "u", "s", "c", "u", "l", "a", "r">>, <<"I", "n", "t", "r", "a", "m", "u", "s", "c", "u", "l", "a", "r">>>>,
      <<<<"i", "n", "j", "e", "c", "t", "i", "o", "n">>, <<"I", "n", "j", "e", "c", "t", "i", "o", "n">>>>,
      <<<<"o", "r", "a", "l">>, <<"O", "r", "a", "l">>>>,
      <<<<"t", "o", "p", "i", "c", "a", "l">>, <<"T", "o", "p", "i", "c", "a", "l">>>>,
      <<<<"i", "n", "h", "a", "l", "a", "t", "i", "o", "n">>, <<"I", "n", "h", "a", "l", "a", "t", "i", "o", "n">>>>,
      <<<<"i", "n", "h", "a", "l", "e", "d">>, <<"I", "n", "h", "a", "l", "a", "t", "i", "o", "n">>>>,
      <<<<"r", "e", "c", "t", "a", "l">>, <<"R", "e", "c", "t", "a", "l">>>>,
      <<<<"o", "p", "h", "t", "h", "a", "l", "m", "i", "c">>, <<"O", "p", "h", "t", "h", "a", "l", "m", "i", "c">>>>,
      <<<<"n", "a", "s", "a", "l">>, <<"N", "a", "s", "a", "l">>>>,
      <<<<"t", "r", "a", "n", "s", "d", "e", "r", "m", "a", "l">>, <<"T", "r", "a", "n", "s", "d", "e", "r", "m", "a", "l">>>>,
      <<<<"s", "u", "b", "l", "i", "n", "g", "u", "a", "l">>, <<"S", "u", "b", "l", "i", "n", "g", "u", "a", "l">>>>,
      <<<<"b", "u", "c", "c", "a", "l">>, <<"B", "u", "c", "c", "a", "l">>>>>>

\* the name of the first route whose key the text contains
RECURSIVE FirstRoute(_, _)
FirstRoute(text_lower, pairs) ==
    IF pairs = <<>> THEN None
    ELSE IF Contains(text_lower, Head(pairs)[1]) THEN Head(pairs)[2]
    ELSE FirstRoute(text_lower, Tail(pairs))

_parse_route_from_text(text) ==
    IF ~Truthy(text) THEN None ELSE FirstRoute(lower(text), routes)

RoutePrimary(label) ==
    LET dosage_section == GetOr(label, "dosageAndAdministration", <<>>)
    IN  IF Truthy(dosage_section)
        THEN _parse_route_from_text(OrEmpty(_clean_html_content(dosage_section)))
        ELSE None

RouteOfField(label, field) ==
    LET field_value == GetOr(label, field, <<>>)
    IN  IF Truthy(field_value) THEN _parse_route_from_text(CleanOrRaw(field_value))
        ELSE None

RouteAlternative(label) ==
    FirstFound(<<RouteOfField(label, "route"),
                 RouteOfField(label, "administration"),
                 RouteOfField(label, "productType")>>)

_extract_route(label) ==
    IF RoutePrimary(label) # None THEN RoutePrimary(label)
    ELSE IF RouteAlternative(label) # None THEN RouteAlternative(label)
    ELSE DefaultRoute

_extract_ndc(label) ==
    LET how_supplied == GetOr(label, "howSupplied", <<>>)
        text == OrEmpty(_clean_html_content(how_supplied))
    IN  IF Truthy(how_supplied) /\ \E i \in 1..Len(text) : NdcGroup(text, i) # <<0, 0>>
        THEN LET at == CHOOSE i \in 1..Len(text) :
                           /\ NdcGroup(text, i) # <<0, 0>>
                           /\ \A j \in 1..(i - 1) : NdcGroup(text, j) = <<0, 0>>
             IN  SubSeq(text, NdcGroup(text, at)[1], NdcGroup(text, at)[2] - 1)
        ELSE None

\* f"{date_str[:4]}-{date_str[4:6]}-{date_str[6:8]}" for a value of length 8
_extract_approval_date(label) ==
    LET effective_time == Get(label, "effectiveTime")
    IN  IF Truthy(effective_time) /\ Len(effective_time) = 8
        THEN SubSeq(effective_time, 1, 4) \o <<"-">> \o SubSeq(effective_time, 5, 6)
                 \o <<"-">> \o SubSeq(effective_time, 7, 8)
        ELSE None

\* the loop over the lines of the narrative: the lines collected after the
\* line that contains the heading, up to a line that contains a stop word
RECURSIVE SectionLines(_, _, _, _, _)
SectionLines(lines, in_section, heading, stops, collected) ==
    IF lines = <<>> THEN collected
    ELSE LET line == Head(lines)
         IN  IF Contains(lower(line), heading)
             THEN SectionLines(Tail(lines), TRUE, heading, stops, collected)
             ELSE IF in_section
             THEN IF \E k \in DOMAIN stops : Contains(lower(line), stops[k])
                  THEN collected
                  ELSE SectionLines(Tail(lines), TRUE, heading, stops,
                                    IF strip(line) # <<>>
                                    THEN Append(collected, strip(line))
                                    ELSE collected)
             ELSE SectionLines(Tail(lines), FALSE, heading, stops, collected)

\* the section of the clinical pharmacology narrative under a heading
ExtractSection(label, heading, stops) ==
    LET clinical_pharm == GetOr(label, "clinicalPharmacology", <<>>)
        text == OrEmpty(_clean_html_content(clinical_pharm))
        section_lines == SectionLines(split(text, "\n"), FALSE, heading, stops, <<>>)
    IN  IF Truthy(clinical_pharm) /\ section_lines # <<>>
        THEN join(section_lines)
        ELSE None

_extract_mechanism_of_action(label) ==
    ExtractSection(label, <<"m", "e", "c", "h", "a", "n", "i", "s", "m", " ", "o", "f", " ", "a", "c", "t", "i", "o", "n">>,
                   <<<<"p", "h", "a", "r", "m", "a", "c", "o", "d", "y", "n", "a", "m", "i", "c", "s">>, <<"p", "h", "a", "r", "m", "a", "c", "o", "k", "i", "n", "e", "t", "i", "c", "s">>, <<"a", "b", "s", "o", "r", "p", "t", "i", "o", "n">>>>)

_extract_pharmacokinetics(label) ==
    ExtractSection(label, <<"p", "h", "a", "r", "m", "a", "c", "o", "k", "i", "n", "e", "t", "i", "c", "s">>,
                   <<<<"c", "l", "i", "n", "i", "c", "a", "l", " ", "s", "t", "u", "d", "i", "e", "s">>, <<"d", "r", "u", "g", " ", "i", "n", "t", "e", "r", "a", "c", "t", "i", "o", "n", "s">>, <<"m", "e", "c", "h", "a", "n", "i", "s", "m">>>>)

(***************************************************************************)
(* DrugDataTransformer.transform: the exceptions its try block catches,    *)
(* the quality issues it logs, and the record it returns.  Values of the   *)
(* input are str or None; a label may also be a value that is not a dict.  *)
(***************************************************************************)
\* where _safe_extract_drug_name finds the name
NameSource(raw_drug_data) ==
    IF Truthy(_clean_text(Get(raw_drug_data, "drugName"))) THEN "drugName"
    ELSE IF FirstFound(<<_clean_text(Get(raw_drug_data, "name")),
                         _clean_text(Get(raw_drug_data, "productName")),
                         _clean_text(Get(raw_drug_data, "brandName"))>>) # None
         THEN "alternative"
    ELSE IF Truthy(_clean_text(Get(LabelOf(raw_drug_data), "title"))) THEN "title"
    ELSE "none"

\* where _safe_extract_manufacturer finds the manufacturer
ManufacturerSource(raw_drug_data) ==
    IF Truthy(_clean_text(Get(raw_drug_data, "labeler"))) THEN "labeler"
    ELSE IF FirstFound(<<_clean_text(Get(raw_drug_data, "manufacturer")),
                         _clean_text(Get(raw_drug_data, "company")),
                         _clean_text(Get(raw_drug_data, "sponsor"))>>) # None
         THEN "alternative"
    ELSE IF Truthy(_clean_text(Get(LabelOf(raw_drug_data), "labelerName")))
         THEN "labelerName"
    ELSE "default"

\* where _safe_extract_indications finds the indications
IndicationsSource(label) ==
    IF Truthy(_clean_html_content(Get(label, "indicationsAndUsage")))
    THEN "indicationsAndUsage"
    ELSE IF FirstFound(<<_clean_html_content(Get(label, "indications")),
                         _clean_html_content(Get(label, "usage")),
                         _clean_html_content(Get(label, "indication"))>>) # None
         THEN "alternative"
    ELSE "default"

\* _safe_extract_drug_name reaches label.get('title') on a label without get
RaisesInName(raw_drug_data) ==
    /\ NameSource(raw_drug_data) \notin {"drugName", "alternative"}
    /\ ~isinstance_dict(LabelOf(raw_drug_data))

\* _safe_extract_manufacturer reaches label.get('labelerName') on such a label
RaisesInManufacturer(raw_drug_data) ==
    /\ ManufacturerSource(raw_drug_data) \notin {"labeler", "alternative"}
    /\ ~isinstance_dict(LabelOf(raw_drug_data))

\* _extract_generic_name: label.get on a label without get, or title.lower()
\* on a title that is None
RaisesInGenericName(label) ==
    \/ ~isinstance_dict(label)
    \/ /\ ~Truthy(Get(label, "genericName"))
       /\ "title" \in DOMAIN label
       /\ label["title"] = None

\* the try block of transform raises, and "except Exception" returns None
Raises(raw_drug_data) ==
    \/ RaisesInName(raw_drug_data)
    \/ /\ NameSource(raw_drug_data) # "none"
       /\ \/ RaisesInManufacturer(raw_drug_data)
          \/ RaisesInGenericName(LabelOf(raw_drug_data))

\* the issue logged by _safe_extract_manufacturer
ManufacturerIssues(raw_drug_data) ==
    CASE ManufacturerSource(raw_drug_data) = "labeler" -> <<>>
      [] ManufacturerSource(raw_drug_data) = "alternative" ->
             <<"Alternative manufacturer source">>
      [] ManufacturerSource(raw_drug_data) = "labelerName" -> <<"Label labeler used">>
      [] OTHER -> <<"Missing manufacturer">>

\* the issues logged by the extractors that follow
IssuesOfFields(label) ==
       (IF DosageFormFound(label) = None THEN <<"Missing dosage form">> ELSE <<>>)
    \o (IF StrengthPrimary(label) # None THEN <<>>
        ELSE IF StrengthAlternative(label) # None
             THEN <<"Alternative strength source">>
             ELSE <<"Missing strength">>)
    \o (IF RoutePrimary(label) # None THEN <<>>
        ELSE IF RouteAlternative(label) # None
             THEN <<"Alternative route source">>
             ELSE <<"Missing route">>)
    \o (CASE IndicationsSource(label) = "indicationsAndUsage" -> <<>>
          [] IndicationsSource(label) = "alternative" ->
                 <<"Alternative indications source">>
          [] OTHER -> <<"Missing indications">>)

\* self.data_quality_issues when transform returns from its try block: the
\* list is emptied first, and an exception leaves what was logged before it
IssuesOf(raw_drug_data) ==
    LET label   == LabelOf(raw_drug_data)
        missing == IF ~LabelTruthy(label) THEN <<"Missing label">> ELSE <<>>
        named   == missing \o
                   (CASE NameSource(raw_drug_data) = "alternative" ->
                             <<"Alternative name source">>
                      [] NameSource(raw_drug_data) = "title" -> <<"Label title used">>
                      [] OTHER -> <<>>)
    IN  IF RaisesInName(raw_drug_data) THEN missing
        ELSE IF NameSource(raw_drug_data) = "none" THEN missing \o <<"Missing drug name">>
        ELSE IF RaisesInManufacturer(raw_drug_data) THEN named
        ELSE IF RaisesInGenericName(label)
             THEN named \o ManufacturerIssues(raw_drug_data)
        ELSE named \o ManufacturerIssues(raw_drug_data) \o IssuesOfFields(label)

\* self.data_quality_issues after transform(raw_drug_data): an input that is
\* not a dict is logged before the list is emptied
IssuesAfter(issues, raw_drug_data) ==
    IF ~isinstance_dict(raw_drug_data)
    THEN Append(issues, "Invalid data type")
    ELSE IssuesOf(raw_drug_data)

\* transform returns None
Rejected(raw_drug_data) ==
    \/ ~isinstance_dict(raw_drug_data)
    \/ Raises(raw_drug_data)
    \/ ~Truthy(_safe_extract_drug_name(raw_drug_data))

\* the DrugRecord that transform builds when it returns one
TransformedRecord(raw_drug_data) ==
    LET label     == LabelOf(raw_drug_data)
        drug_name == _safe_extract_drug_name(raw_drug_data)
    IN  [name                      |-> drug_name,
         generic_name              |-> _extract_generic_name(label),
         brand_name                |-> _extract_brand_name(drug_name, label),
         manufacturer              |-> _safe_extract_manufacturer(raw_drug_data),
         dosage_form               |-> _extract_dosage_form(label),
         strength                  |-> _extract_strength(label),
         route                     |-> _extract_route(label),
         ndc                       |-> _extract_ndc(label),
         fda_application_number    |-> None,
         approval_date             |-> _extract_approval_date(label),
         indications               |-> _safe_extract_indications(label),
         contraindications         |-> _clean_html_content(Get(label, "contraindications")),
         warnings                  |-> _clean_html_content(Get(label, "warningsAndPrecautions")),
         precautions               |-> None,
         adverse_reactions         |-> _clean_html_content(Get(label, "adverseReactions")),
         dosage_and_administration |-> _clean_html_content(Get(label, "dosageAndAdministration")),
         how_supplied              |-> _clean_html_content(Get(label, "howSupplied")),
         clinical_pharmacology     |-> _clean_html_content(Get(label, "clinicalPharmacology")),
         mechanism_of_action       |-> _extract_mechanism_of_action(label),
         pharmacokinetics          |-> _extract_pharmacokinetics(label),
         set_id                    |-> Get(raw_drug_data, "setId"),
         slug                      |-> Get(raw_drug_data, "slug")]

\* the None that transform returns in place of a DrugRecord
NoRecord == DrugRecord(None, None, None, None)

\* what transform(raw_drug_data) returns: the DrugRecord, or NoRecord for None
TransformResult(raw_drug_data) ==
    IF Rejected(raw_drug_data) THEN NoRecord ELSE TransformedRecord(raw_drug_data)

\* a returned DrugRecord as the loader reads it: the fields that the loader's
\* validation and matching use
AsLoaded(record) ==
    IF record = NoRecord THEN NoRecord
    ELSE DrugRecord(record.name, record.manufacturer, record.set_id, record.indications)

\* transform(raw_drug_data), as the loader reads its result
transform(raw_drug_data) == AsLoaded(TransformResult(raw_drug_data))

VARIABLES
    \* DrugDataTransformer
    data_quality_issues, \* self.data_quality_issues: the types of the issues
    \* history of the last transform call, kept for the properties
    raw_input,           \* its argument
    result,              \* the DrugRecord it returned, NoRecord for None
    logged,              \* the issues it logged
    transforms           \* transform calls made

transVars == <<data_quality_issues, raw_input, result, logged, transforms>>

InitTransformer ==
    /\ data_quality_issues = <<>>
    /\ raw_input = EmptyDict
    /\ result = NoRecord
    /\ logged = <<>>
    /\ transforms = 0

\* one call transform(raw_drug_data)
TransformCall(raw_drug_data) ==
    /\ data_quality_issues' = IssuesAfter(data_quality_issues, raw_drug_data)
    /\ raw_input' = raw_drug_data
    /\ result' = TransformResult(raw_drug_data)
    /\ logged' = IF isinstance_dict(raw_drug_data)
                 THEN data_quality_issues'
                 ELSE <<"Invalid data type">>
    /\ transforms' = transforms + 1

RawDoc(drugName, labeler, setId, indicationsAndUsage) ==
    [drugName |-> drugName, labeler |-> labeler, setId |-> setId,
     label |-> [indicationsAndUsage |-> indicationsAndUsage]]

\* a document that transforms into a record: a padded labeler, HTML indications
DocA     == RawDoc(<<"a">>, <<" ","m"," ">>, <<"s">>, <<"<","p",">","i","<","/","p",">">>)
\* a name of whitespace only: the parser yields it, transform rejects it
DocBlank == RawDoc(<<" ">>, <<"m">>, <<"s">>, <<"i">>)

RawDocs == {DocA, DocBlank}

(***************************************************************************)
(* DrugSeederOrchestrator.run (main.py)                                    *)
(***************************************************************************)
VARIABLES
    docs,                \* the documents parser.parse_drugs() yields, in order
    batch_size,          \* self.batch_size
    resume_from,         \* self.resume_from
    opc,                 \* position of run(): "none" | "start" | "iter" | "setpos" |
                         \*   "seeding" | "flush" | "finish" | "report" | "done" |
                         \*   "interrupted" | "parser_error" | "storage_error" |
                         \*   "connect_error"
    consumed,            \* documents taken from the parser's generator
    processed_count,
    current_position,    \* self.current_position
    batch,               \* the in-memory batch
    reported,            \* the offset printed on interruption (-1: none)
    runs,                \* runs started
    \* history of the run, kept for the properties
    batchDocs,           \* positions in docs of the documents whose records are in batch
    transformed,         \* positions in docs of the documents passed to transform
    submitted,           \* positions of the documents of batches whose call returned
    inflight,            \* the interruption met a running seed_drugs_batch call
    prevResume,          \* resume_from of the run before this one
    prevSubmitted        \* what the run before this one had submitted

orchVars == <<docs, batch_size, resume_from, opc, consumed, processed_count,
              current_position, batch, reported, runs, batchDocs, transformed,
              submitted, inflight, prevResume, prevSubmitted>>

(***************************************************************************)
(* DrugLabelParser (parser.py).  The file is a JSON array; ijson hands its *)
(* top-level elements to parse_drugs one at a time: a dict, or a value     *)
(* that is not a dict (a string, a number, null, a list).                  *)
(***************************************************************************)
\* "if field not in drug_data or not drug_data[field]" returns False for none
\* of drugName, labeler, label
HasRequiredFields(drug_data) ==
    /\ Truthy(Get(drug_data, "drugName"))
    /\ Truthy(Get(drug_data, "labeler"))
    /\ "label" \in DOMAIN drug_data
    /\ LabelTruthy(drug_data["label"])

label_fields ==
    <<"indicationsAndUsage", "dosageAndAdministration",
      "warningsAndPrecautions", "adverseReactions">>

\* _is_valid_drug_record(drug_data) for a dict
_is_valid_drug_record(drug_data) ==
    /\ HasRequiredFields(drug_data)
    /\ isinstance_dict(drug_data["label"])
    /\ \E i \in DOMAIN label_fields : Truthy(Get(drug_data["label"], label_fields[i]))

\* the element makes the loop body raise: "field not in drug_data" raises
\* TypeError for null and for a number; for a string and for a list the
\* test gives False and drug_data.get(...) in the else branch raises
\* AttributeError
ItemRaises(drug_data) == ~isinstance_dict(drug_data)

VARIABLES
    \* the generator parse_drugs()
    items,               \* the top-level elements of the file, in order
    read,                \* elements taken from ijson
    yielded,             \* the documents yielded so far
    parser_state         \* "idle" | "reading" | "exhausted" | "raised"

parserVars == <<items, read, yielded, parser_state>>

InitParser ==
    /\ items = <<>>
    /\ read = 0
    /\ yielded = <<>>
    /\ parser_state = "idle"

VARIABLES
    \* DrugDatabaseSeeder.create_indexes and the indexes of the database
    indexes,             \* the indexes that exist
    index_calls,         \* create_indexes calls of the run
    attempted,           \* the statements the last call executed, in order
    index_connection,    \* the connection of the last call: "none" | "open" | "failed"
    \* history of the run, kept for the properties
    sent                 \* the records passed to seed_drugs_batch, in order

indexVars == <<indexes, index_calls, attempted, index_connection>>

InitIndexes ==
    /\ indexes = {}
    /\ index_calls = 0
    /\ attempted = <<>>
    /\ index_connection = "none"

vars == <<loaderVars, orchVars, transVars, parserVars, indexVars, sent>>

\* documents in the file read by one sequence of runs
MaxDocs == 3
\* largest batch size the operator configures
MaxBatchSize == 2
\* runs in a row: the first one and the resumed ones
MaxRuns == 2
\* records that raise in one run
MaxRunErrors == 1

\* a skip that takes one document too many
SkipOnResumeInclusive(count, offset) == count <= offset

\* "if processed_count < self.resume_from"
SkipOnResume(count, offset) == count < offset

\* a flush that waits for one record more than the batch size
BatchOverfull(n, size) == n > size

\* "if len(batch) >= self.batch_size"
BatchFull(n, size) == n >= size

\* with DrugDatabaseSeeder(...) as seeder: __enter__ connects
StartRun ==
    /\ opc = "start"
    /\ opc' = "iter"
    /\ connection' = "open"
    /\ UNCHANGED <<stats, drugs, labels, txDrugs, txLabels, txStatus, lpc,
                   drug_records, idx, successful_records, ret, dbBefore,
                   statsBefore, outcome, injected, txEnd, commitRaised,
                   calls, given, prev>>
    /\ UNCHANGED <<docs, batch_size, resume_from, consumed, processed_count,
                   current_position, batch, reported, runs, batchDocs,
                   transformed, submitted, inflight, prevResume, prevSubmitted>>
    /\ UNCHANGED <<transVars, parserVars, indexVars, sent>>

\* the for loop takes a document that the resume offset skips
SkipDocument ==
    /\ opc = "iter"
    /\ consumed < Len(docs)
    /\ SkipOnResume(processed_count, resume_from)
    /\ consumed' = consumed + 1
    /\ processed_count' = processed_count + 1
    /\ UNCHANGED loaderVars
    /\ UNCHANGED <<docs, batch_size, resume_from, opc, current_position, batch,
                   reported, runs, batchDocs, transformed, submitted, inflight,
                   prevResume, prevSubmitted>>
    /\ UNCHANGED <<transVars, parserVars, indexVars, sent>>

\* the for loop takes a document, transforms it, appends the record if there
\* is one, and counts the document
TransformDocument ==
    /\ opc = "iter"
    /\ consumed < Len(docs)
    /\ ~SkipOnResume(processed_count, resume_from)
    /\ consumed' = consumed + 1
    /\ TransformCall(docs[consumed + 1])
    /\ LET drug_record == AsLoaded(result')
       IN  /\ batch' = IF drug_record # NoRecord THEN Append(batch, drug_record) ELSE batch
           /\ batchDocs' = IF drug_record # NoRecord
                           THEN batchDocs \cup {consumed + 1} ELSE batchDocs
    /\ transformed' = transformed \cup {consumed + 1}
    /\ processed_count' = processed_count + 1
    /\ opc' = "setpos"
    /\ UNCHANGED loaderVars
    /\ UNCHANGED <<docs, batch_size, resume_from, current_position, reported,
                   runs, submitted, inflight, prevResume, prevSubmitted>>
    /\ UNCHANGED <<parserVars, indexVars, sent>>

\* self.current_position = processed_count, then the full batch is passed to
\* seeder.seed_drugs_batch
SetPosition ==
    /\ opc = "setpos"
    /\ current_position' = processed_count
    /\ IF BatchFull(Len(batch), batch_size)
       THEN /\ EnterSeed(batch)
            /\ calls' = calls + 1
            /\ sent' = sent \o batch
            /\ opc' = "seeding"
       ELSE /\ opc' = "iter"
            /\ UNCHANGED <<sent, calls>>
            /\ UNCHANGED <<connection, stats, drugs, labels, txDrugs, txLabels,
                           txStatus, lpc, drug_records, idx, successful_records,
                           ret, dbBefore, statsBefore, outcome, injected, txEnd,
                           commitRaised, prev>>
    /\ UNCHANGED given
    /\ UNCHANGED <<docs, batch_size, resume_from, consumed, processed_count,
                   batch, reported, runs, batchDocs, transformed, submitted,
                   inflight, prevResume, prevSubmitted>>
    /\ UNCHANGED <<transVars, parserVars, indexVars>>

\* a loop that goes on without batch.clear()
ClearBatchKeepsRecords ==
    /\ opc = "seeding"
    /\ lpc = "returned"
    /\ submitted' = submitted \cup batchDocs
    /\ opc' = "iter"
    /\ UNCHANGED loaderVars
    /\ UNCHANGED <<docs, batch_size, resume_from, consumed, processed_count,
                   current_position, batch, batchDocs, reported, runs,
                   transformed, inflight, prevResume, prevSubmitted>>
    /\ UNCHANGED <<transVars, parserVars, indexVars, sent>>

\* seed_drugs_batch has returned: batch.clear()
ClearBatch ==
    /\ opc = "seeding"
    /\ lpc = "returned"
    /\ batch' = <<>>
    /\ batchDocs' = {}
    /\ submitted' = submitted \cup batchDocs
    /\ opc' = "iter"
    /\ UNCHANGED loaderVars
    /\ UNCHANGED <<docs, batch_size, resume_from, consumed, processed_count,
                   current_position, reported, runs, transformed, inflight,
                   prevResume, prevSubmitted>>
    /\ UNCHANGED <<transVars, parserVars, indexVars, sent>>

\* an end of input that passes the batch to the loader without "if batch"
EndOfInputAlwaysFlushes ==
    /\ opc = "iter"
    /\ consumed = Len(docs)
    /\ EnterSeed(batch)
    /\ calls' = calls + 1
    /\ sent' = sent \o batch
    /\ opc' = "flush"
    /\ UNCHANGED given
    /\ UNCHANGED <<docs, batch_size, resume_from, consumed, processed_count,
                   current_position, batch, reported, runs, batchDocs,
                   transformed, submitted, inflight, prevResume, prevSubmitted>>
    /\ UNCHANGED <<transVars, parserVars, indexVars>>

\* the parser is exhausted: "if batch: seeder.seed_drugs_batch(batch)"
EndOfInput ==
    /\ opc = "iter"
    /\ consumed = Len(docs)
    /\ IF batch # <<>>
       THEN /\ EnterSeed(batch)
            /\ calls' = calls + 1
            /\ sent' = sent \o batch
            /\ opc' = "flush"
       ELSE /\ opc' = "finish"
            /\ UNCHANGED <<sent, calls>>
            /\ UNCHANGED <<connection, stats, drugs, labels, txDrugs, txLabels,
                           txStatus, lpc, drug_records, idx, successful_records,
                           ret, dbBefore, statsBefore, outcome, injected, txEnd,
                           commitRaised, prev>>
    /\ UNCHANGED given
    /\ UNCHANGED <<docs, batch_size, resume_from, consumed, processed_count,
                   current_position, batch, reported, runs, batchDocs,
                   transformed, submitted, inflight, prevResume, prevSubmitted>>
    /\ UNCHANGED <<transVars, parserVars, indexVars>>

\* the last seed_drugs_batch call has returned
AfterFlush ==
    /\ opc = "flush"
    /\ lpc = "returned"
    /\ submitted' = submitted \cup batchDocs
    /\ opc' = "finish"
    /\ UNCHANGED loaderVars
    /\ UNCHANGED <<docs, batch_size, resume_from, consumed, processed_count,
                   current_position, batch, reported, runs, batchDocs,
                   transformed, inflight, prevResume, prevSubmitted>>
    /\ UNCHANGED <<transVars, parserVars, indexVars, sent>>

\* an exit that leaves the connection as it is
DisconnectSkipped ==
    /\ txDrugs' = drugs
    /\ txLabels' = labels
    /\ txStatus' = "idle"
    /\ UNCHANGED <<connection, stats, drugs, labels, drug_records, idx,
                   successful_records, ret, dbBefore, statsBefore, outcome,
                   injected, txEnd, commitRaised, calls, given, prev>>

\* DrugDatabaseSeeder.disconnect: closing the connection discards the
\* transaction that is open
Disconnected ==
    /\ connection' = "closed"
    /\ txDrugs' = drugs
    /\ txLabels' = labels
    /\ txStatus' = "idle"
    /\ UNCHANGED <<stats, drugs, labels, drug_records, idx, successful_records,
                   ret, dbBefore, statsBefore, outcome, injected, txEnd,
                   commitRaised, calls, given, prev>>

\* the final report and the end of the with block
Complete ==
    /\ opc = "report"
    /\ opc' = "done"
    /\ Disconnected
    /\ UNCHANGED lpc
    /\ UNCHANGED <<docs, batch_size, resume_from, consumed, processed_count,
                   current_position, batch, reported, runs, batchDocs,
                   transformed, submitted, inflight, prevResume, prevSubmitted>>
    /\ UNCHANGED <<transVars, parserVars, indexVars, sent>>

\* KeyboardInterrupt anywhere inside the try block of run(): it is no
\* Exception, so no handler of seed_drugs_batch catches it; run() prints
\* self.current_position and exits, and __exit__ closes the connection
Interrupt ==
    /\ opc \in {"iter", "setpos", "seeding", "flush", "finish"}
    /\ opc' = "interrupted"
    /\ reported' = current_position
    /\ inflight' = (lpc = "loop")
    /\ lpc' = IF lpc = "loop" THEN "abandoned" ELSE lpc
    /\ submitted' = IF lpc = "returned" /\ opc \in {"seeding", "flush"}
                    THEN submitted \cup batchDocs ELSE submitted
    /\ Disconnected
    /\ UNCHANGED <<docs, batch_size, resume_from, consumed, processed_count,
                   current_position, batch, runs, batchDocs, transformed,
                   prevResume, prevSubmitted>>
    /\ UNCHANGED <<transVars, parserVars, indexVars, sent>>

\* the operator runs the program again with --resume-from <the offset printed>
\* the five CREATE INDEX statements of create_indexes, in the order of the list
index_statements ==
    <<"idx_drugs_name", "idx_drugs_manufacturer", "idx_drugs_generic_name",
      "idx_drug_labels_indications", "idx_drugs_ndc">>

\* a loop that stops at the first statement that raises
RECURSIVE ExecutedUntilFailure(_, _)
ExecutedUntilFailure(statements, failing) ==
    IF statements = <<>> THEN <<>>
    ELSE IF Head(statements) \in failing THEN <<Head(statements)>>
    ELSE <<Head(statements)>> \o ExecutedUntilFailure(Tail(statements), failing)

\* the statements the loop of create_indexes executes when those of `failing`
\* raise: each one has its own try/except and the loop goes on
Executed(statements, failing) == statements

\* DrugDatabaseSeeder.create_indexes: a connection of its own in autocommit
\* mode; a statement that raises is printed and skipped; an exception of the
\* connection is printed; nothing is raised to the caller
create_indexes(connect_ok, failing) ==
    /\ index_calls' = index_calls + 1
    /\ IF connect_ok
       THEN /\ index_connection' = "open"
            /\ attempted' = Executed(index_statements, failing)
            /\ indexes' = indexes \cup
                   {attempted'[i] : i \in {k \in 1..Len(attempted') :
                                               attempted'[k] \notin failing}}
       ELSE /\ index_connection' = "failed"
            /\ attempted' = <<>>
            /\ UNCHANGED indexes

\* the failures of the index statements one call meets: none raises, or the
\* first one does
IndexFailures == {{}, {Head(index_statements)}}

\* "if create_indexes: seeder.create_indexes()" after the last batch
CreateIndexes ==
    /\ opc = "finish"
    /\ opc' = "report"
    /\ \E create_indexes_flag \in BOOLEAN :
          IF create_indexes_flag
          THEN \E connect_ok \in BOOLEAN : \E failing \in IndexFailures :
                  create_indexes(connect_ok, failing)
          ELSE UNCHANGED indexVars
    /\ UNCHANGED loaderVars
    /\ UNCHANGED <<docs, batch_size, resume_from, consumed, processed_count,
                   current_position, batch, reported, runs, batchDocs,
                   transformed, submitted, inflight, prevResume, prevSubmitted>>
    /\ UNCHANGED <<transVars, parserVars, sent>>

\* a run that creates the indexes on its way out of a parser error
ParserErrorThenIndexes ==
    /\ opc = "iter"
    /\ opc' = "parser_error"
    /\ create_indexes(TRUE, {})
    /\ Disconnected
    /\ UNCHANGED lpc
    /\ UNCHANGED <<docs, batch_size, resume_from, consumed, processed_count,
                   current_position, batch, reported, runs, batchDocs,
                   transformed, submitted, inflight, prevResume, prevSubmitted>>
    /\ UNCHANGED <<transVars, parserVars, sent>>

\* parse_drugs raises while run() iterates over it (the file cannot be opened
\* or an element of the file makes the parser raise): the exception leaves
\* the with block, __exit__ closes the connection, run() prints and re-raises
ParserError ==
    /\ opc = "iter"
    /\ opc' = "parser_error"
    /\ Disconnected
    /\ UNCHANGED lpc
    /\ UNCHANGED <<docs, batch_size, resume_from, consumed, processed_count,
                   current_position, batch, reported, runs, batchDocs,
                   transformed, submitted, inflight, prevResume, prevSubmitted>>
    /\ UNCHANGED <<transVars, parserVars, indexVars, sent>>

\* seed_drugs_batch raises to run(): connection.rollback() of the handlers
\* raises (the connection is lost); the exception leaves the with block
FatalStorageError ==
    /\ opc \in {"seeding", "flush"}
    /\ lpc = "loop"
    /\ idx > Len(drug_records)
    /\ opc' = "storage_error"
    /\ lpc' = "abandoned"
    /\ Disconnected
    /\ UNCHANGED <<docs, batch_size, resume_from, consumed, processed_count,
                   current_position, batch, reported, runs, batchDocs,
                   transformed, submitted, inflight, prevResume, prevSubmitted>>
    /\ UNCHANGED <<transVars, parserVars, indexVars, sent>>

\* psycopg2.connect raises in __enter__: the with block is never entered
ConnectFails ==
    /\ opc = "start"
    /\ opc' = "connect_error"
    /\ UNCHANGED loaderVars
    /\ UNCHANGED <<docs, batch_size, resume_from, consumed, processed_count,
                   current_position, batch, reported, runs, batchDocs,
                   transformed, submitted, inflight, prevResume, prevSubmitted>>
    /\ UNCHANGED <<transVars, parserVars, indexVars, sent>>

Restart ==
    /\ opc = "interrupted"
    /\ runs < MaxRuns
    /\ runs' = runs + 1
    /\ resume_from' = reported
    /\ prevResume' = resume_from
    /\ prevSubmitted' = submitted
    /\ opc' = "start"
    /\ consumed' = 0
    /\ processed_count' = 0
    /\ current_position' = 0
    /\ batch' = <<>>
    /\ batchDocs' = {}
    /\ transformed' = {}
    /\ submitted' = {}
    /\ inflight' = FALSE
    /\ reported' = -1
    /\ connection' = "none"
    /\ stats' = ZeroStats
    /\ lpc' = "idle"
    /\ drug_records' = <<>>
    /\ idx' = 1
    /\ successful_records' = 0
    /\ ret' = "pending"
    /\ dbBefore' = <<drugs, labels>>
    /\ statsBefore' = ZeroStats
    /\ outcome' = <<>>
    /\ injected' = <<>>
    /\ txEnd' = "none"
    /\ commitRaised' = FALSE
    /\ prev' = NoCall
    /\ data_quality_issues' = <<>>
    /\ raw_input' = EmptyDict
    /\ result' = NoRecord
    /\ logged' = <<>>
    /\ transforms' = 0
    /\ index_calls' = 0
    /\ attempted' = <<>>
    /\ index_connection' = "none"
    /\ sent' = <<>>
    /\ UNCHANGED <<drugs, labels, txDrugs, txLabels, txStatus, calls, given>>
    /\ UNCHANGED <<docs, batch_size, indexes, parserVars>>

\* the loader's steps inside a run; a run meets at most MaxRunErrors records
\* that raise
SeedStep ==
    /\ opc \in {"seeding", "flush"}
    /\ \/ \E fault \in Faults :
            /\ fault # "none" => stats.errors < 2 * MaxRunErrors
            /\ ProcessRecord(fault)
       \/ \E commit_ok \in BOOLEAN :
            /\ ~commit_ok => stats.errors < 2 * MaxRunErrors
            /\ FinishBatch(commit_ok)
    /\ UNCHANGED <<orchVars, transVars, parserVars, indexVars, sent>>

InitLoader ==
    /\ stats = ZeroStats
    /\ drugs = {} /\ labels = {}
    /\ txDrugs = {} /\ txLabels = {}
    /\ txStatus = "idle"
    /\ lpc = "idle"
    /\ drug_records = <<>>
    /\ idx = 1
    /\ successful_records = 0
    /\ ret = "pending"
    /\ dbBefore = <<{}, {}>>
    /\ statsBefore = ZeroStats
    /\ outcome = <<>>
    /\ injected = <<>>
    /\ txEnd = "none"
    /\ commitRaised = FALSE
    /\ calls = 0
    /\ given = 0
    /\ prev = NoCall

InitOrchestrator(pc) ==
    /\ opc = pc
    /\ consumed = 0
    /\ processed_count = 0
    /\ current_position = 0
    /\ batch = <<>>
    /\ reported = -1
    /\ batchDocs = {}
    /\ transformed = {}
    /\ submitted = {}
    /\ inflight = FALSE
    /\ prevResume = 0
    /\ prevSubmitted = {}

InitRun ==
    /\ InitLoader
    /\ connection = "none"
    /\ docs \in SeqsUpTo(RawDocs, MaxDocs)
    /\ batch_size \in 1..MaxBatchSize
    /\ resume_from \in 0..MaxDocs
    /\ runs = 1
    /\ InitOrchestrator("start")
    /\ InitTransformer
    /\ InitParser
    /\ InitIndexes
    /\ sent = <<>>

NextRun ==
    \/ StartRun
    \/ SkipDocument
    \/ TransformDocument
    \/ SetPosition
    \/ SeedStep
    \/ ClearBatch
    \/ EndOfInput
    \/ AfterFlush
    \/ CreateIndexes
    \/ Complete
    \/ Interrupt
    \/ ParserError
    \/ FatalStorageError
    \/ ConnectFails
    \/ Restart

SpecRun == InitRun /\ [][NextRun]_vars

(***************************************************************************)
(* A caller that holds an open loader and passes it batches                *)
(***************************************************************************)
Batches == SeqsUpTo(Records, MaxBatch)

Call(records) ==
    /\ lpc \in {"idle", "returned"}
    /\ calls < MaxCalls
    /\ given + Len(records) <= MaxRecords
    /\ calls' = calls + 1
    /\ given' = given + Len(records)
    /\ EnterSeed(records)
    /\ UNCHANGED <<orchVars, transVars, parserVars, indexVars, sent>>

Init ==
    /\ InitLoader
    /\ connection = "open"
    /\ docs = <<>>
    /\ batch_size = 1
    /\ resume_from = 0
    /\ runs = 0
    /\ InitOrchestrator("none")
    /\ InitTransformer
    /\ InitParser
    /\ InitIndexes
    /\ sent = <<>>

Next ==
    \/ \E records \in Batches : Call(records)
    \/ \E fault \in Faults : ProcessRecord(fault) /\ UNCHANGED <<orchVars, transVars, parserVars, indexVars, sent>>
    \/ \E commit_ok \in BOOLEAN : FinishBatch(commit_ok) /\ UNCHANGED <<orchVars, transVars, parserVars, indexVars, sent>>

Spec == Init /\ [][Next]_vars

(***************************************************************************)
(* Properties of seed_drugs_batch                                          *)
(***************************************************************************)
\* a call on a non-empty batch has returned
Returned == lpc = "returned" /\ drug_records # <<>>

Indexes(S) == {i \in DOMAIN outcome : outcome[i] \in S}

AllValid == \A i \in DOMAIN drug_records : _validate_record(drug_records[i])

C2_ErrorsCountFailedRecords ==
    (Returned /\ AllValid) =>
        LET k == Cardinality({i \in DOMAIN injected : injected[i] # "none"})
            n == Len(drug_records)
        IN  /\ stats.errors - statsBefore.errors = k
            /\ stats.processed - statsBefore.processed = n - k

\* the committed drug row of record i of the batch
RowOf(i) ==
    {d \in drugs : /\ LOWER(d.drug_name) = LOWER(drug_records[i].name)
                   /\ LOWER(d.manufacturer) = LOWER(drug_records[i].manufacturer)}

\* C3: a storage error of one record does not abort the batch: only the
\* records that met the error raise, and when the batch is committed the
\* rows of the records that were inserted or updated are in committed
\* storage.
C3_ErrorsAreRecordScoped ==
    Returned =>
        /\ \A j \in Indexes({"raised"}) : injected[j] # "none"
        /\ ret = TRUE => \A j \in Indexes({"inserted", "updated"}) : RowOf(j) # {}

\* the batch of valid records just loaded is the batch loaded by the call
\* before, and no record raised in either call
LoadedTwice ==
    /\ Returned
    /\ AllValid
    /\ prev.batch = drug_records
    /\ prev.clean
    /\ CallSummary.clean

\* C4: loading the same batch of valid records twice in a row leaves the
\* number of drug rows and of label rows as after the first load, and the
\* second load updates every record and inserts none.
C4_SecondLoadOnlyUpdates ==
    LoadedTwice =>
        /\ Cardinality(drugs) = prev.nDrugs
        /\ Cardinality(labels) = prev.nLabels
        /\ \A i \in DOMAIN outcome : outcome[i] = "updated"
        /\ stats.inserted = statsBefore.inserted

\* a batch loaded twice, its second load updating the rows of the first
C4_Witness ==
    /\ LoadedTwice
    /\ Cardinality(drugs) >= 1
    /\ stats.updated > statsBefore.updated

\* C5: set id matching takes precedence, so no two committed drug rows carry
\* the same non-empty set id.
C5_SetIdIsUnique ==
    \A d1 \in drugs : \A d2 \in drugs :
        (Truthy(d1.set_id) /\ d1.set_id = d2.set_id) => d1 = d2

\* C6: in every committed state each drug row has exactly one label row.
C6_EveryDrugHasOneLabel ==
    \A d \in drugs : Cardinality({l \in labels : l.drug_id = d.id}) = 1

(***************************************************************************)
(* Properties of DrugSeederOrchestrator.run                                *)
(***************************************************************************)
\* transform returns a record for the document at position i
Accepted(i) == transform(docs[i]) # NoRecord

\* C7: on interruption, every document before the reported offset that this
\* run transformed into a record belongs to a batch whose seed_drugs_batch
\* call has returned (committed or rolled back): none is left in the
\* in-memory batch, which a run resumed from the offset would skip.
C7_ReportedOffsetIsSafe ==
    opc = "interrupted" =>
        \A i \in transformed : (i <= reported /\ Accepted(i)) => i \in submitted

\* C8: an interruption that meets a running seed_drugs_batch call leaves
\* none of the batch's writes committed, and neither the statistics nor the
\* reported offset count the records of that batch.
C8_InterruptLeavesBatchUncounted ==
    (opc = "interrupted" /\ inflight) =>
        /\ <<drugs, labels>> = dbBefore
        /\ stats = statsBefore
        /\ \A i \in batchDocs : i > reported

\* the documents an interruption leaves behind: transformed into a record by
\* the interrupted run, before the offset it reported, in no batch whose call
\* returned
LostByInterrupt ==
    {i \in transformed : i <= reported /\ Accepted(i) /\ i \notin submitted}

\* after the resumed run has completed: the documents after the interrupted
\* run's own offset that gave a record and that neither run submitted
LostAfterResume ==
    {i \in 1..Len(docs) : /\ i > prevResume
                          /\ Accepted(i)
                          /\ i \notin (prevSubmitted \cup submitted)}

\* C9: an interruption followed by a run resumed from the reported offset
\* leaves at most batch_size transformed documents that are never submitted
\* to the loader.
C9_AtMostOneBatchLost ==
    /\ opc = "interrupted" => Cardinality(LostByInterrupt) <= batch_size
    /\ (opc = "done" /\ runs > 1) => Cardinality(LostAfterResume) <= batch_size

\* a resumed run has completed and a whole batch of two documents is lost
C9_Witness ==
    /\ opc = "done"
    /\ runs > 1
    /\ batch_size = 2
    /\ Cardinality(LostAfterResume) = batch_size

\* C10: with resume offset k the first k documents the parser yields are
\* consumed without being transformed and every later one is transformed; a
\* completed run has consumed all documents and submitted exactly the
\* records of the documents after the first k; with k at least the number
\* of documents nothing is loaded.
C10_ResumeSkipsFirstK ==
    /\ transformed = {i \in 1..consumed : i > resume_from}
    /\ opc = "done" =>
           /\ consumed = Len(docs)
           /\ submitted = {i \in 1..Len(docs) : i > resume_from /\ Accepted(i)}
    /\ (opc = "done" /\ resume_from >= Len(docs)) =>
           /\ lpc = "idle"
           /\ stats = ZeroStats

\* a run resumed behind the first of three documents has completed
C10_Witness ==
    /\ opc = "done"
    /\ resume_from = 1
    /\ Len(docs) = 3
    /\ transformed = {2, 3}
    /\ submitted # {}

(***************************************************************************)
(* The loader's validation, on records of every kind                       *)
(***************************************************************************)
\* a string of n characters
StringOfLen(n) == [i \in 1..n |-> "x"]

\* only the indications are blank
RecNoIndications    == DrugRecord(<<"a">>, <<"m">>, None, <<" ">>)
RecNoManufacturer   == DrugRecord(<<"a">>, <<>>, None, <<"i">>)
\* a name of exactly the longest length accepted, and one character more
RecLongestName      == DrugRecord(StringOfLen(MaxFieldLen), <<"m">>, None, <<"i">>)
RecLongName         == DrugRecord(StringOfLen(MaxFieldLen + 1), <<"m">>, None, <<"i">>)
RecLongManufacturer == DrugRecord(<<"a">>, StringOfLen(MaxFieldLen + 1), None, <<"i">>)

ValidationRecords ==
    Records \cup {RecNoIndications, RecNoManufacturer, RecLongestName,
                  RecLongName, RecLongManufacturer}

\* a caller that passes the loader one record at a time
NextValidate ==
    \/ \E record \in ValidationRecords : Call(<<record>>)
    \/ \E fault \in Faults : ProcessRecord(fault) /\ UNCHANGED <<orchVars, transVars, parserVars, indexVars, sent>>
    \/ \E commit_ok \in BOOLEAN : FinishBatch(commit_ok) /\ UNCHANGED <<orchVars, transVars, parserVars, indexVars, sent>>

SpecValidate == Init /\ [][NextValidate]_vars

\* the name or the manufacturer is empty, whitespace-only or too long
IdentityInvalid(record) ==
    \/ Len(strip(record.name)) = 0
    \/ Len(strip(record.manufacturer)) = 0
    \/ Len(record.name) > MaxFieldLen
    \/ Len(record.manufacturer) > MaxFieldLen

\* C11: the loader counts a record as skipped, and writes nothing for it,
\* exactly when its name or manufacturer is empty, whitespace-only or longer
\* than 255 characters; no other field causes a skip.
C11_SkippedIffIdentityInvalid ==
    Returned =>
        /\ \A i \in DOMAIN outcome :
               outcome[i] = "skipped" <=> IdentityInvalid(drug_records[i])
        /\ (\A i \in DOMAIN outcome : outcome[i] = "skipped") =>
               <<drugs, labels>> = dbBefore

(***************************************************************************)
(* A caller of DrugDataTransformer.transform, and the inputs it passes     *)
(***************************************************************************)
\* transform calls on one transformer
MaxTransforms == 2

\* the fields that name the drug
NameParts ==
    {[drugName |-> <<"a">>],
     [drugName |-> <<" ">>],
     [drugName |-> <<>>],
     [name |-> <<"A", "l", "t", " ", "D", "r", "u", "g">>],
     [drugName |-> None, productName |-> <<"p">>, brandName |-> <<"b">>],
     [drugName |-> <<"a">>, name |-> <<"n">>],
     [drugName |-> StringOfLen(MaxFieldLen + 1)],
     [brandName |-> <<" ">>],
     EmptyDict}

\* the label: absent, empty, None, a str, or a dict
LabelParts ==
    {EmptyDict,
     [label |-> EmptyDict],
     [label |-> NotADict("NoneType")],
     [label |-> NotADict("str")],
     [label |-> [title |-> <<"T">>]],
     [label |-> [title |-> None]],
     [label |-> [title |-> <<" ">>, labelerName |-> <<"L">>]],
     [label |-> [indicationsAndUsage |-> <<"<", "p", ">", "y", "<", "/", "p", ">">>]]}

\* the fields that name the manufacturer
ManufacturerParts ==
    {EmptyDict,
     [labeler |-> <<" ">>],
     [company |-> <<"c">>],
     [labeler |-> None, sponsor |-> <<"s">>, manufacturer |-> <<"m">>],
     [labeler |-> StringOfLen(MaxFieldLen + 1)]}

\* the identifiers of the document
IdParts ==
    {[setId |-> <<>>, slug |-> <<" ", "s", " ">>],
     [setId |-> <<" ", "s", " ">>, slug |-> <<>>],
     [setId |-> <<"s">>, slug |-> <<"g">>],
     [setId |-> None]}

\* labels with content
ContentLabels ==
    {[effectiveTime |-> <<"2", "0", "2", "1", "0", "6", "1", "5">>],
     [effectiveTime |-> <<"2", "0", "2", "1">>],
     [effectiveTime |-> <<"a", "b", "c", "d", "e", "f", "g", "h">>],
     [effectiveTime |-> <<"2", "0", "2", "1", "1", "3", "4", "5">>],
     [clinicalPharmacology |-> <<"M", "e", "c", "h", "a", "n", "i", "s", "m", " ", "o", "f", " ", "A", "c", "t", "i", "o", "n", "\n", "B", "i", "n", "d", "s", " ", "x", "\n", "P", "h", "a", "r", "m", "a", "c", "o", "k", "i", "n", "e", "t", "i", "c", "s", "\n", "A", "b", "s", "o", "r", "b", "e", "d">>],
     [clinicalPharmacology |-> <<"<", "h", "2", ">", "M", "e", "c", "h", "a", "n", "i", "s", "m", " ", "o", "f", " ", "A", "c", "t", "i", "o", "n", "<", "/", "h", "2", ">", "\n", "<", "p", ">", "B", "i", "n", "d", "s", " ", "x", "<", "/", "p", ">">>],
     [clinicalPharmacology |-> <<"B", "i", "n", "d", "s", " ", "x">>],
     [dosageFormsAndStrengths |-> <<"<", "p", ">", "I", "n", "j", "e", "c", "t", "i", "o", "n", ":", " ", "1", "2", "0", " ", "m", "g", "/", "m", "L", " ", "i", "n", " ", "a", " ", "s", "i", "n", "g", "l", "e", "-", "d", "o", "s", "e", " ", "p", "r", "e", "f", "i", "l", "l", "e", "d", " ", "p", "e", "n", "<", "/", "p", ">">>],
     [dosageFormsAndStrengths |-> <<"5", " ", "m", "g", "/", "2", " ", "m", "L", " ", "c", "a", "p", "s", "u", "l", "e">>, dosageAndAdministration |-> <<"f", "o", "r", " ", "o", "r", "a", "l", " ", "u", "s", "e">>],
     [strength |-> <<"2", " ", "%", " ", "w">>, dosageForm |-> <<"f", "i", "l", "m">>, route |-> <<"I", "n", "h", "a", "l", "e", "d">>],
     [genericName |-> <<" ", "g", " ">>, title |-> <<"A">>, howSupplied |-> <<"N", "D", "C", ":", " ", "0", "0", "0", "2", "-", "1", "4", "3", "6", "-", "1", "1">>],
     [title |-> <<"A", " ", "g", "e", "n", "e", "r", "i", "c", " ", "(", "f", "o", "o", ")">>, indications |-> <<"u">>, contraindications |-> <<" ">>,
      adverseReactions |-> <<"<", "p", ">", " ", "a", " ", " ", "b", " ", "<", "/", "p", ">">>]}

TransformInputs ==
         {n @@ l @@ [labeler |-> <<"X">>] : n \in NameParts, l \in LabelParts}
    \cup {[drugName |-> <<"a">>] @@ m @@ l :
              m \in ManufacturerParts,
              l \in {EmptyDict, [label |-> [labelerName |-> <<"L">>]],
                     [label |-> NotADict("NoneType")]}}
    \cup {[drugName |-> <<"a">>, labeler |-> <<"X">>, label |-> [indicationsAndUsage |-> <<"<", "p", ">", "y", "<", "/", "p", ">">>]] @@ i :
              i \in IdParts}
    \cup {[drugName |-> <<"a">>, labeler |-> <<"X">>, setId |-> <<"s">>, label |-> l] :
              l \in ContentLabels}
    \cup {NotADict("str"), NotADict("NoneType"), NotADict("list")}

\* transform(raw_drug_data), called directly
Transform(raw_drug_data) ==
    /\ transforms < MaxTransforms
    /\ TransformCall(raw_drug_data)
    /\ UNCHANGED <<loaderVars, orchVars, parserVars, indexVars, sent>>

NextTransform == \E raw_drug_data \in TransformInputs : Transform(raw_drug_data)

SpecTransform == Init /\ [][NextTransform]_vars

(***************************************************************************)
(* Properties of transform                                                 *)
(***************************************************************************)
\* C12: every record that transform returns has a name and a manufacturer
\* that are non-empty and at most 255 characters long
C12_NameAndManufacturerBounded ==
    result # NoRecord =>
        /\ result.name # <<>>
        /\ Len(result.name) <= MaxFieldLen
        /\ result.manufacturer # <<>>
        /\ Len(result.manufacturer) <= MaxFieldLen

\* a value that is None, empty or whitespace only
Blank(value) == value = None \/ \A i \in 1..Len(value) : IsSpace(value[i])

\* none of drugName, name, productName, brandName and the label's title holds
\* a value that is non-empty after trimming
NoResolvableName(raw_drug_data) ==
    /\ \A field \in {"drugName", "name", "productName", "brandName"} :
           Blank(Get(raw_drug_data, field))
    /\ Blank(Get(LabelOf(raw_drug_data), "title"))

\* C13: transform returns no record for an input that is not a dict and for
\* a dict in which no name field and no label title holds a non-blank value
C13_UnresolvableIsRejected ==
    (transforms > 0 /\ (~isinstance_dict(raw_input) \/ NoResolvableName(raw_input)))
        => result = NoRecord

\* a call on a dict whose drugName is present and whitespace only, and which
\* names the drug nowhere else, has returned None
C13_Witness ==
    /\ transforms > 0
    /\ isinstance_dict(raw_input)
    /\ "drugName" \in DOMAIN raw_input
    /\ raw_input["drugName"] = <<" ">>
    /\ NoResolvableName(raw_input)
    /\ result = NoRecord

\* C14: transform returns a record for every dict whose name resolves,
\* whatever its other fields are
C14_ResolvedNameIsAccepted ==
    (transforms > 0 /\ isinstance_dict(raw_input) /\ ~NoResolvableName(raw_input))
        => result # NoRecord

\* the values that may name the drug, in the order of the fallback chain
NameChain(raw_drug_data) ==
    <<Get(raw_drug_data, "drugName"), Get(raw_drug_data, "name"),
      Get(raw_drug_data, "productName"), Get(raw_drug_data, "brandName"),
      Get(LabelOf(raw_drug_data), "title")>>

\* the position of the first value that is not blank, 0 when all are blank
FirstNonBlank(values) ==
    LET found == {i \in 1..Len(values) : ~Blank(values[i])}
    IN  IF found = {} THEN 0 ELSE CHOOSE i \in found : \A j \in found : i <= j

\* the issue types that tell where the name came from
NameSourceIssues == {"Alternative name source", "Label title used"}

C16_IssuesAreOfLastCall == data_quality_issues = logged

\* the fields of a DrugRecord that may be None
OptionalFields ==
    {"generic_name", "brand_name", "ndc", "fda_application_number", "approval_date",
     "contraindications", "warnings", "precautions", "adverse_reactions",
     "dosage_and_administration", "how_supplied", "clinical_pharmacology",
     "mechanism_of_action", "pharmacokinetics", "set_id", "slug"}

\* a non-empty string without whitespace at its start or end
Trimmed(value) ==
    /\ value # <<>>
    /\ ~IsSpace(value[1])
    /\ ~IsSpace(value[Len(value)])

\* C17: every optional field of a returned record is None or a non-empty
\* string without leading or trailing whitespace
C17_OptionalFieldsNoneOrTrimmed ==
    result # NoRecord =>
        \A field \in OptionalFields : result[field] = None \/ Trimmed(result[field])

\* the number that a string of digits denotes
RECURSIVE DigitsValue(_)
DigitsValue(digits) ==
    IF digits = <<>> THEN 0
    ELSE 10 * DigitsValue(SubSeq(digits, 1, Len(digits) - 1))
         + (CHOOSE n \in 0..9 : ToString(n) = digits[Len(digits)])

DaysInMonth(year, month) ==
    IF month \in {4, 6, 9, 11} THEN 30
    ELSE IF month # 2 THEN 31
    ELSE IF year % 4 = 0 /\ (year % 100 # 0 \/ year % 400 = 0) THEN 29
    ELSE 28

\* 8 digits YYYYMMDD that name a day of the calendar
IsCalendarDate(value) ==
    /\ Len(value) = 8
    /\ \A i \in 1..8 : IsDigit(value[i])
    /\ DigitsValue(SubSeq(value, 1, 4)) >= 1
    /\ DigitsValue(SubSeq(value, 5, 6)) \in 1..12
    /\ DigitsValue(SubSeq(value, 7, 8)) \in
           1..DaysInMonth(DigitsValue(SubSeq(value, 1, 4)), DigitsValue(SubSeq(value, 5, 6)))

\* C18: a returned record has an approval_date only for an effectiveTime of
\* 8 digits that is a calendar date, and the date is then YYYY-MM-DD
C18_ApprovalDateIsCalendarDate ==
    (result # NoRecord /\ result.approval_date # None) =>
        LET effective_time == Get(LabelOf(raw_input), "effectiveTime")
        IN  /\ effective_time # None
            /\ IsCalendarDate(effective_time)
            /\ result.approval_date =
                   SubSeq(effective_time, 1, 4) \o <<"-">> \o SubSeq(effective_time, 5, 6)
                       \o <<"-">> \o SubSeq(effective_time, 7, 8)

\* a line of the narrative contains the heading and the line after it is
\* not blank
HasSection(narrative, heading) ==
    LET lines == split(narrative, "\n")
    IN  \E i \in 1..(Len(lines) - 1) :
            /\ Contains(lower(lines[i]), heading)
            /\ ~Blank(lines[i + 1])

\* C19: when the clinicalPharmacology narrative has a "mechanism of action"
\* heading line followed by a non-blank line, mechanism_of_action is set, and
\* likewise pharmacokinetics after a "pharmacokinetics" heading line
C19_SectionIsExtracted ==
    (result # NoRecord /\ Truthy(Get(LabelOf(raw_input), "clinicalPharmacology"))) =>
        LET narrative == Get(LabelOf(raw_input), "clinicalPharmacology")
        IN  /\ HasSection(narrative, <<"m", "e", "c", "h", "a", "n", "i", "s", "m", " ", "o", "f", " ", "a", "c", "t", "i", "o", "n">>)
                => result.mechanism_of_action # None
            /\ HasSection(narrative, <<"p", "h", "a", "r", "m", "a", "c", "o", "k", "i", "n", "e", "t", "i", "c", "s">>)
                => result.pharmacokinetics # None

\* C20: the strength taken from "Injection: 120 mg/mL in a single-dose
\* prefilled pen" is "120 mg/mL", and a strength has no surrounding whitespace
C20_StrengthKeepsDenominator ==
    result # NoRecord =>
        /\ Trimmed(result.strength)
        /\ Get(LabelOf(raw_input), "dosageFormsAndStrengths") = <<"<", "p", ">", "I", "n", "j", "e", "c", "t", "i", "o", "n", ":", " ", "1", "2", "0", " ", "m", "g", "/", "m", "L", " ", "i", "n", " ", "a", " ", "s", "i", "n", "g", "l", "e", "-", "d", "o", "s", "e", " ", "p", "r", "e", "f", "i", "l", "l", "e", "d", " ", "p", "e", "n", "<", "/", "p", ">">>
               => result.strength = <<"1", "2", "0", " ", "m", "g", "/", "m", "L">>

(***************************************************************************)
(* A consumer of the generator parse_drugs(), and the files it reads       *)
(***************************************************************************)
\* top-level elements in a file
MaxItems == 2

\* a document with the given fields of the label
ItemWith(label) == [drugName |-> <<"a">>, labeler |-> <<"m">>, label |-> label]

FileItems ==
    {DocA,
     ItemWith([indicationsAndUsage |-> <<>>, adverseReactions |-> <<"r">>]),
     ItemWith([title |-> <<"T">>]),
     ItemWith([indicationsAndUsage |-> <<>>]),
     ItemWith(EmptyDict),
     ItemWith(NotADict("str")),
     [drugName |-> <<"a">>, labeler |-> <<"m">>],
     [drugName |-> <<>>, labeler |-> <<"m">>, label |-> [indicationsAndUsage |-> <<"i">>]],
     [drugName |-> <<"a">>, label |-> [dosageAndAdministration |-> <<"d">>]],
     NotADict("str"),
     NotADict("NoneType")}

\* "for drug_data in parser": the next element is yielded, or dropped, or it
\* makes the loop body raise, which "except Exception" prints and re-raises
NextItem ==
    /\ parser_state = "reading"
    /\ read < Len(items)
    /\ read' = read + 1
    /\ LET drug_data == items[read + 1]
       IN  IF ItemRaises(drug_data)
           THEN parser_state' = "raised" /\ UNCHANGED yielded
           ELSE /\ UNCHANGED parser_state
                /\ yielded' = IF _is_valid_drug_record(drug_data)
                              THEN Append(yielded, drug_data)
                              ELSE yielded
    /\ UNCHANGED items
    /\ UNCHANGED <<loaderVars, orchVars, transVars, indexVars, sent>>

\* the array has no further element: the generator returns
EndOfFile ==
    /\ parser_state = "reading"
    /\ read = Len(items)
    /\ parser_state' = "exhausted"
    /\ UNCHANGED <<items, read, yielded>>
    /\ UNCHANGED <<loaderVars, orchVars, transVars, indexVars, sent>>

InitParse ==
    /\ InitLoader
    /\ connection = "none"
    /\ docs = <<>>
    /\ batch_size = 1
    /\ resume_from = 0
    /\ runs = 0
    /\ InitOrchestrator("none")
    /\ InitTransformer
    /\ InitIndexes
    /\ sent = <<>>
    /\ items \in SeqsUpTo(FileItems, MaxItems)
    /\ read = 0
    /\ yielded = <<>>
    /\ parser_state = "reading"

NextParse == NextItem \/ EndOfFile

SpecParse == InitParse /\ [][NextParse]_vars

(***************************************************************************)
(* Properties of parse_drugs                                               *)
(***************************************************************************)
\* a value that is present and not empty
NonEmpty(value) == value # None /\ value # <<>>

\* the element is a mapping with non-empty drugName and labeler and a label
\* that is a mapping with a non-empty field among the four content fields
Admissible(item) ==
    /\ isinstance_dict(item)
    /\ NonEmpty(Get(item, "drugName"))
    /\ NonEmpty(Get(item, "labeler"))
    /\ "label" \in DOMAIN item
    /\ isinstance_dict(item["label"])
    /\ \E field \in {"indicationsAndUsage", "dosageAndAdministration",
                     "warningsAndPrecautions", "adverseReactions"} :
           NonEmpty(Get(item["label"], field))

\* the admissible elements among the first n of the file, in order
RECURSIVE AdmissibleAmong(_, _)
AdmissibleAmong(elements, n) ==
    IF n = 0 THEN <<>>
    ELSE IF Admissible(elements[n])
         THEN Append(AdmissibleAmong(elements, n - 1), elements[n])
         ELSE AdmissibleAmong(elements, n - 1)

\* C21: the parser yields exactly the admissible elements, it never raises on
\* an element, and it goes on to the end of the file
C21_YieldsIffAdmissible ==
    /\ parser_state # "raised"
    /\ yielded = AdmissibleAmong(items, read)
    /\ parser_state = "exhausted" => read = Len(items)

\* ---------------------------------------------------------------------------
\* Exit paths of run()

\* C22: a parser error ends the run where it happens: the step that raises
\* and every step after it transform no document, submit no record to the
\* loader (the records of the batch in memory stay unsubmitted), run no index
\* creation and leave the committed rows as they are
C22_ParserErrorAbortsRun ==
    [][(opc = "parser_error" \/ opc' = "parser_error") =>
          /\ opc' = "parser_error"
          /\ transformed' = transformed
          /\ transforms' = transforms
          /\ sent' = sent
          /\ calls' = calls
          /\ Len(sent') = Cardinality(submitted')
          /\ batchDocs' \cap submitted' = {}
          /\ batch' = batch
          /\ index_calls' = 0
          /\ indexes' = indexes
          /\ drugs' = drugs
          /\ labels' = labels]_vars

\* a parser error after one batch was committed and while the next one is
\* being filled
C22_Witness ==
    /\ opc = "parser_error"
    /\ batch # <<>>
    /\ sent # <<>>
    /\ drugs # {}

\* C23: index creation is isolated from the loaded data: a call that got its
\* connection has executed all five statements whatever failed, the step ends
\* in the final report and not in an exception, it changes neither the
\* committed rows nor the counters, and a run makes at most one call, after
\* the last batch was submitted and has returned
C23_IndexCreationIsIsolated ==
    /\ [](/\ index_calls <= 1
          /\ index_connection = "open" => attempted = index_statements
          /\ index_calls = 1 =>
                /\ opc \in {"report", "done", "interrupted"}
                /\ consumed = Len(docs)
                /\ batchDocs \subseteq submitted
                /\ Len(sent) = Cardinality(submitted)
                /\ lpc \in {"idle", "returned"})
    /\ [][index_calls' = index_calls + 1 =>
            /\ opc = "finish"
            /\ opc' = "report"
            /\ drugs' = drugs
            /\ labels' = labels
            /\ stats' = stats
            /\ connection' = connection]_vars

\* a call after a committed batch in which a statement failed: the other
\* four indexes exist
C23_Witness ==
    /\ index_calls = 1
    /\ index_connection = "open"
    /\ Cardinality(indexes) = Len(index_statements) - 1
    /\ drugs # {}

\* ---------------------------------------------------------------------------
\* Stored rows

\* the loop has just counted record idx of the batch as `counter`
JustCounted(counter) ==
    /\ lpc = "loop"
    /\ idx' = idx + 1
    /\ Len(outcome') = idx
    /\ outcome'[idx] = counter

\* C24: an update is a full replace: after a record was counted as updated,
\* one stored drug has kept its id and created_at, its other columns are the
\* record's values (None included) with a fresh updated_at, that drug has
\* exactly one label row whose columns are the record's (a new row when the
\* drug had none), and every other row is as before
C24_UpdateIsFullReplace ==
    [][JustCounted("updated") =>
          LET record == drug_records[idx]
          IN  \E d \in txDrugs :
                LET after   == {e \in txDrugs' : e.id = d.id}
                    before_ == {l \in txLabels : l.drug_id = d.id}
                    lbs     == {l \in txLabels' : l.drug_id = d.id}
                IN  /\ after = {[id |-> d.id,
                                 drug_name |-> record.name,
                                 manufacturer |-> record.manufacturer,
                                 set_id |-> record.set_id,
                                 created_at |-> d.created_at,
                                 updated_at |-> calls]}
                    /\ txDrugs' \ after = txDrugs \ {d}
                    /\ Cardinality(lbs) = 1
                    /\ \A l \in lbs :
                          /\ l.labeler_name = record.manufacturer
                          /\ l.indications = record.indications
                          /\ IF before_ = {}
                             THEN l.id \notin UsedIds(txDrugs, txLabels)
                             ELSE l.id \in {b.id : b \in before_}
                    /\ txLabels' \ lbs = txLabels \ before_]_vars

\* a drug inserted by one call with a set id and updated by a later call
\* from a record without set id: the stored set id is gone
C24_Witness ==
    /\ lpc = "loop"
    /\ outcome # <<>>
    /\ outcome[Len(outcome)] = "updated"
    /\ \E d \in txDrugs :
          /\ d.created_at < d.updated_at
          /\ d.set_id = None
          /\ d.drug_name = <<"A">>
          /\ \E l \in txLabels : l.drug_id = d.id /\ l.indications = <<"j">>

\* (name, manufacturer) of a stored drug, letter case folded
IdentityPair(row) == <<LOWER(row.drug_name), LOWER(row.manufacturer)>>

\* C25: no two committed drug rows have the same case-insensitive (name,
\* manufacturer) pair, and no step removes a committed drug row
C25_OneRowPerIdentity ==
    /\ [](\A d1 \in drugs : \A d2 \in drugs :
              IdentityPair(d1) = IdentityPair(d2) => d1 = d2)
    /\ [][/\ Cardinality(drugs') >= Cardinality(drugs)
          /\ {d.id : d \in drugs} \subseteq {d.id : d \in drugs'}]_vars

\* one committed batch held the same pair twice, in different letter case:
\* one row is stored
C25_Witness ==
    /\ lpc = "returned"
    /\ txEnd = "commit"
    /\ drug_records = <<RecA, RecA2>>
    /\ outcome = <<"inserted", "updated">>
    /\ Cardinality(drugs) = 1

\* ---------------------------------------------------------------------------
\* Transactions

\* C26: no transaction spans two batches: when seed_drugs_batch has returned,
\* True or False, no transaction is open and the connection sees exactly the
\* committed rows; a call on a non-empty batch has ended its transaction by
\* commit or by rollback
C26_NoTransactionSpansBatches ==
    lpc = "returned" =>
        /\ txStatus = "idle"
        /\ txDrugs = drugs
        /\ txLabels = labels
        /\ ret \in BOOLEAN
        /\ drug_records # <<>> => txEnd \in {"commit", "rollback"}
        /\ txEnd = "rollback" => <<drugs, labels>> = dbBefore

\* a second call wrote a drug row, its label statement raised, and the call
\* returned False: the row of that call is gone, the rows of the first call stay
C26_Witness ==
    /\ lpc = "returned"
    /\ ret = FALSE
    /\ txEnd = "rollback"
    /\ calls = 2
    /\ drugs # {}
    /\ \E i \in DOMAIN injected : injected[i] = "client_label"

\* ---------------------------------------------------------------------------
\* Statistics

\* the records of the call that were counted as `counter`
Counted(counter) == Cardinality({i \in DOMAIN outcome : outcome[i] = counter})

\* the transaction of the call that has returned took effect
TookEffect ==
    /\ txEnd = "commit"
    /\ \A i \in DOMAIN injected : injected[i] # "server"

\* C29: the counters agree with committed storage: after any calls on a
\* loader that started with empty tables, stats.inserted is the number of
\* committed drug rows, and after the first call stats.updated is the number
\* of updates that call committed
C29_CountersAgreeWithStorage ==
    lpc = "returned" =>
        /\ stats.inserted = Cardinality(drugs)
        /\ calls = 1 =>
              stats.updated = IF TookEffect THEN Counted("updated") ELSE 0

\* ---------------------------------------------------------------------------
\* Batches of a run

\* C27: every batch passed to seed_drugs_batch is the batch in memory, is
\* non-empty and holds at most batch_size records; a batch passed inside the
\* loop holds exactly batch_size, so the records passed before any point of
\* the loop are whole batches, and only the batch passed at end of input is
\* shorter
C27_BatchesAreBounded ==
    /\ [](/\ batch_size >= 1
          /\ opc \in {"iter", "setpos", "seeding"} => Len(sent) % batch_size = 0
          /\ opc = "seeding" => Len(drug_records) = batch_size
          /\ opc = "flush" =>
                (Len(drug_records) >= 1 /\ Len(drug_records) < batch_size))
    /\ [][calls' = calls + 1 =>
            /\ drug_records' = batch
            /\ sent' = sent \o batch
            /\ Len(batch) >= 1
            /\ Len(batch) <= batch_size]_vars

\* the final, shorter batch is passed after a full one
C27_Witness ==
    /\ opc = "flush"
    /\ batch_size = 2
    /\ Len(drug_records) = 1
    /\ Len(sent) = 3

\* the records of the accepted documents among docs[lo..hi], in input order
RECURSIVE RecordsOf(_, _)
RecordsOf(lo, hi) ==
    IF lo > hi THEN <<>>
    ELSE LET drug_record == transform(docs[hi])
         IN  IF drug_record # NoRecord
             THEN Append(RecordsOf(lo, hi - 1), drug_record)
             ELSE RecordsOf(lo, hi - 1)

C30_ConnectionClosedOnExit ==
    /\ opc \in {"iter", "setpos", "seeding", "flush", "finish", "report"} =>
          connection = "open"
    /\ opc \in {"done", "interrupted", "parser_error", "storage_error"} =>
          connection = "closed"
    /\ opc = "connect_error" => connection = "none"
    /\ lpc = "loop" => connection = "open"

\* an interruption while the loader was inside the loop of a batch
C30_Witness ==
    /\ opc = "interrupted"
    /\ inflight
    /\ lpc = "abandoned"
    /\ connection = "closed"

=============================================================================
